---- MODULE Spec2Model ----
(***************************************************************************)
(* Pay4Way bot: the landed-cost pricing engine, the per-session cart, the  *)
(* aiogram dialog handlers of bot.py / order_handlers.py, the currency     *)
(* service and the order submission, as one state machine.                 *)
(*                                                                         *)
(* Money is counted in euro cents.  Intermediate results that Python keeps *)
(* as floats are kept exactly, as a pair [c, f]: c cents and f millionths  *)
(* of a cent (0 <= f < Frac).  round(x, 2) and the ":.2f" format are the   *)
(* exact round-half-even to a cent; the listed prices the model draws are  *)
(* free of exact half-cent ties, where binary floats and exact decimals    *)
(* could round differently.  Weights are counted in tenths of a kilogram.  *)
(***************************************************************************)
EXTENDS Integers, Sequences, FiniteSets, TLC

(***************************************************************************)
(* Bounds of the exploration.                                              *)
(***************************************************************************)
MaxCart == 2

(***************************************************************************)
(* Program constants.                                                      *)
(***************************************************************************)
delivery_cost_to_warehouse == 500
cache_timeout == 3600
Frac == 1000000

(***************************************************************************)
(* Exact decimal arithmetic on [c, f] pairs.                               *)
(***************************************************************************)
Norm(c, f) == [c |-> c + (f \div Frac), f |-> f % Frac]

Dec(c) == [c |-> c, f |-> 0]

DAdd(x, y) == Norm(x.c + y.c, x.f + y.f)

DSub(x, y) == Norm(x.c - y.c - 1, x.f + Frac - y.f)

\* x * (k / 100), exact for the k and x the program uses
DPct(x, k) ==
    LET ck == x.c * k
    IN  Norm(ck \div 100, (ck % 100) * (Frac \div 100) + ((x.f * k) \div 100))

\* Python round(x, 2): to the nearest cent, ties to the even cent
Round2(x) ==
    IF (2 * x.f > Frac) \/ (2 * x.f = Frac /\ x.c % 2 = 1) THEN x.c + 1 ELSE x.c

(***************************************************************************)
(* price_calculator.py                                                     *)
(***************************************************************************)
NoCost == -1

\* DELIVERY_TYPES["ems"]["weights"], weight in tenths of a kilogram
EmsWeights ==
    [w \in {5, 10, 15, 20, 25, 30, 35, 40, 45, 50, 55, 60, 65, 70, 75, 80} |->
        CASE w = 5  -> 1569 [] w = 10 -> 1739 [] w = 15 -> 2165 [] w = 20 -> 2335
          [] w = 25 -> 2550 [] w = 30 -> 2720 [] w = 35 -> 2974 [] w = 40 -> 3144
          [] w = 45 -> 3359 [] w = 50 -> 3529 [] w = 55 -> 3744 [] w = 60 -> 3914
          [] w = 65 -> 4129 [] w = 70 -> 4299 [] w = 75 -> 4514 [] w = 80 -> 4684]

DELIVERY_TYPES == [ems |-> EmsWeights]

TierCodes == DOMAIN DELIVERY_TYPES

\* a lookup that falls back to the next listed weight below
get_delivery_cost_nearest(delivery_type, weight) ==
    IF delivery_type \notin TierCodes THEN NoCost
    ELSE LET weights == DELIVERY_TYPES[delivery_type]
             below == {w \in DOMAIN weights : w <= weight}
         IN  IF below = {} THEN NoCost
             ELSE weights[CHOOSE w \in below : \A x \in below : x <= w]

\* weights.get(weight, None)
get_delivery_cost(delivery_type, weight) ==
    IF delivery_type \notin TierCodes THEN NoCost
    ELSE IF weight \in DOMAIN DELIVERY_TYPES[delivery_type]
         THEN DELIVERY_TYPES[delivery_type][weight]
         ELSE NoCost

\* calculate_item_price(original_price, delivery_type, weight, with_vat=True)
\* for a numeric original_price (cents); 0 when the table has no entry
calculate_item_price(original_price, delivery_type, weight) ==
    LET delivery_cost == get_delivery_cost(delivery_type, weight)
        price == Dec(original_price)
        price_without_vat == DSub(price, DPct(price, 19))
        step3 == price_without_vat
        step4 == DAdd(step3, Dec(delivery_cost))
        step5 == DPct(step4, 15)
        step6 == DPct(DAdd(price_without_vat, step5), 3)
        calculated_price == DAdd(DAdd(step4, step5), step6)
    IN  IF delivery_cost = NoCost THEN 0 ELSE Round2(calculated_price)

\* calculate_cart_total(original_price, delivery_type, weight): 'total',
\* 'service_fee', 'insurance_fee' and 'delivery_cost'; raises (ok = FALSE)
\* when get_delivery_cost has no entry (None in the arithmetic)
calculate_cart_total(original_price, delivery_type, weight) ==
    LET delivery_cost == get_delivery_cost(delivery_type, weight)
        price_with_vat == calculate_item_price(original_price, delivery_type, weight)
        price == Dec(original_price)
        item_price_without_vat == DSub(price, DPct(price, 19))
        service_fee == DPct(DAdd(item_price_without_vat, Dec(delivery_cost)), 15)
        insurance_fee == DPct(DAdd(item_price_without_vat, service_fee), 3)
    IN  IF delivery_cost = NoCost
        THEN [ok |-> FALSE, total |-> 0, service_fee |-> Dec(0),
              insurance_fee |-> Dec(0), delivery_cost |-> NoCost]
        ELSE [ok |-> TRUE, total |-> price_with_vat, service_fee |-> service_fee,
              insurance_fee |-> insurance_fee, delivery_cost |-> delivery_cost]

\* A price_input of extract_price_value: a number (int or float, in cents)
\* or a text, and the input of an event that has none
NumberInput(x) == [k |-> "number", v |-> x]

TextInput(text) == [k |-> "text", v |-> text]

NoInput == [k |-> "none", v |-> 0]

\* the characters of the texts that are given as a price
PriceChars(text) ==
    CASE text = "100" -> <<"1", "0", "0">>
      [] text = "19.99" -> <<"1", "9", ".", "9", "9">>
      [] text = "250,00 €" -> <<"2", "5", "0", ",", "0", "0", " ", "€">>
      [] text = "-5" -> <<"-", "5">>
      [] text = "abc" -> <<"a", "b", "c">>
      [] text = "1.2.3" -> <<"1", ".", "2", ".", "3">>
      [] OTHER -> <<>>

isdigit(c) == c \in {"0", "1", "2", "3", "4", "5", "6", "7", "8", "9"}

RECURSIVE DigitsValue(_)
DigitsValue(digits) ==
    LET c == digits[Len(digits)]
        value == CASE c = "0" -> 0 [] c = "1" -> 1 [] c = "2" -> 2 [] c = "3" -> 3
                   [] c = "4" -> 4 [] c = "5" -> 5 [] c = "6" -> 6 [] c = "7" -> 7
                   [] c = "8" -> 8 [] c = "9" -> 9
    IN  IF digits = <<>> THEN 0
        ELSE 10 * DigitsValue(SubSeq(digits, 1, Len(digits) - 1)) + value

\* float(price_clean) of a text of digits and points, in cents (the texts
\* drawn have at most two digits after the point); ValueError is ok = FALSE
float(price_clean) ==
    LET points == {i \in DOMAIN price_clean : price_clean[i] = "."}
        point == IF points = {} THEN Len(price_clean) + 1
                 ELSE CHOOSE i \in points : TRUE
        whole == SubSeq(price_clean, 1, point - 1)
        part == SubSeq(price_clean, point + 1, Len(price_clean))
        cents == IF Len(part) = 0 THEN 0
                 ELSE IF Len(part) = 1 THEN 10 * DigitsValue(part)
                 ELSE DigitsValue(SubSeq(part, 1, 2))
    IN  IF Cardinality(points) > 1 \/ Len(price_clean) = Cardinality(points)
        THEN [ok |-> FALSE, v |-> 0]
        ELSE [ok |-> TRUE, v |-> 100 * DigitsValue(whole) + cents]

\* extract_price_value(price_input): the number itself, or what is left of
\* the text when everything but digits and points is dropped; None is
\* ok = FALSE
extract_price_value(price_input) ==
    IF price_input.k = "number" THEN [ok |-> TRUE, v |-> price_input.v]
    ELSE LET price_str == PriceChars(price_input.v)
             replaced == [i \in DOMAIN price_str |->
                             IF price_str[i] = "," THEN "." ELSE price_str[i]]
             price_clean == SelectSeq(replaced, LAMBDA c : isdigit(c) \/ c = ".")
         IN  IF price_clean = <<>> THEN [ok |-> FALSE, v |-> 0]
             ELSE float(price_clean)

(***************************************************************************)
(* Values of the keys of the FSM data dict: a key is absent, holds None or *)
(* holds a value.                                                          *)
(***************************************************************************)
AbsentN == [k |-> "absent", v |-> 0]
NoneN == [k |-> "none", v |-> 0]
ValN(x) == [k |-> "val", v |-> x]
AbsentS == [k |-> "absent", v |-> ""]
NoneS == [k |-> "none", v |-> ""]
ValS(x) == [k |-> "val", v |-> x]


(***************************************************************************)
(* Inputs the users and the environment can send.                          *)
(***************************************************************************)
Users == {1, 2}

\* texts typed as a price, with float(text.replace('€','').replace(',','.'))
PriceTexts == {"100", "abc"}

QuotedPriceTexts == {"100", "250,00 €", "19.99", "50", "200", "33.33", "75.25"}

ParsePrice(text) ==
    CASE text = "100" -> [ok |-> TRUE, v |-> 10000]
      [] text = "250,00 €" -> [ok |-> TRUE, v |-> 25000]
      [] text = "19.99" -> [ok |-> TRUE, v |-> 1999]
      [] text = "50" -> [ok |-> TRUE, v |-> 5000]
      [] text = "200" -> [ok |-> TRUE, v |-> 20000]
      [] text = "33.33" -> [ok |-> TRUE, v |-> 3333]
      [] text = "75.25" -> [ok |-> TRUE, v |-> 7525]
      [] text = "-5" -> [ok |-> TRUE, v |-> 0 - 500]
      [] OTHER -> [ok |-> FALSE, v |-> 0]

\* the <code> of a "delivery_<code>" callback
TierInputs == {"ems"}

\* the <weight> of a "weight_<tier>_<weight>" callback, with float(weight_str)
WeightTexts == {"1", "abc"}

\* the weights the keyboard of get_weight_keyboard offers, and one it does not
QuotedWeightTexts == {"0.5", "1", "1.5", "2", "2.5", "3", "3.5", "4", "4.5", "5",
                      "5.5", "6", "6.5", "7", "7.5", "8", "9"}

ParseWeight(text) ==
    CASE text = "0.5" -> [ok |-> TRUE, v |-> 5]
      [] text = "1" -> [ok |-> TRUE, v |-> 10]
      [] text = "1.5" -> [ok |-> TRUE, v |-> 15]
      [] text = "2" -> [ok |-> TRUE, v |-> 20]
      [] text = "2.5" -> [ok |-> TRUE, v |-> 25]
      [] text = "3" -> [ok |-> TRUE, v |-> 30]
      [] text = "3.5" -> [ok |-> TRUE, v |-> 35]
      [] text = "4" -> [ok |-> TRUE, v |-> 40]
      [] text = "4.5" -> [ok |-> TRUE, v |-> 45]
      [] text = "5" -> [ok |-> TRUE, v |-> 50]
      [] text = "5.5" -> [ok |-> TRUE, v |-> 55]
      [] text = "6" -> [ok |-> TRUE, v |-> 60]
      [] text = "6.5" -> [ok |-> TRUE, v |-> 65]
      [] text = "7" -> [ok |-> TRUE, v |-> 70]
      [] text = "7.5" -> [ok |-> TRUE, v |-> 75]
      [] text = "8" -> [ok |-> TRUE, v |-> 80]
      [] text = "9" -> [ok |-> TRUE, v |-> 90]
      [] OTHER -> [ok |-> FALSE, v |-> 0]

LinkTexts == {"https://shop.de/item", "shop.de/item"}

StartsWithHttp(text) == text \in {"https://shop.de/item", "http://shop.de/item"}

FeatureTexts == {"red"}
NameTexts == {"Ivanov Ivan"}
PhoneTexts == {"79998887766"}
EmailTexts == {"ivan@mail.ru"}
AddressTexts == {"101000, Moscow"}

\* texts parsed with int(): a quantity or a cart index
IntTexts == {"-1", "0", "1", "2", "3", "x"}

\* the indexes tried in the walk through the whole bot
FewIntTexts == {"0", "1", "x"}

ParseInt(text) ==
    CASE text = "-1" -> [ok |-> TRUE, v |-> 0 - 1]
      [] text = "0" -> [ok |-> TRUE, v |-> 0]
      [] text = "1" -> [ok |-> TRUE, v |-> 1]
      [] text = "2" -> [ok |-> TRUE, v |-> 2]
      [] text = "3" -> [ok |-> TRUE, v |-> 3]
      [] text = "4" -> [ok |-> TRUE, v |-> 4]
      [] text = "1000" -> [ok |-> TRUE, v |-> 1000]
      [] OTHER -> [ok |-> FALSE, v |-> 0]

\* the <text> of a "quantity_search_<text>" or "quantity_calculated_<text>" callback
QuantityTexts == {"2", "custom", "x"}

\* texts typed as a custom quantity
CustomQuantityTexts == {"2", "1000"}

\* the <text> of a "nav_<text>" or "add_to_cart_<text>" callback
IndexTexts == {"0", "2"}

\* what the rate provider answers to the requests of one handler: the raw rate
\* to its first request and to the requests after it, 0 for a failed request
ApiAnswers == {[first |-> 90, rest |-> 90], [first |-> 95, rest |-> 95],
               [first |-> 0, rest |-> 0], [first |-> 0, rest |-> 90]}

\* the products the search provider lists (price in cents)
SearchListing == << [id |-> 1, price |-> 4999], [id |-> 2, price |-> 12900] >>

Queries == {"nike zoom", "n"}

\* outcomes of the local write, of the sheets service and of the operator message
DiskAnswers == {"ok", "error"}
SheetsAnswers == {"ok", "raise"}
ManagerAnswers == {"ok", "error"}

(***************************************************************************)
(* State.                                                                  *)
(*   fsm[u]          aiogram FSM state of session u ("none" is Idle)       *)
(*   data[u]         aiogram FSM data dict of session u; cart = <<>> is    *)
(*                   both "no 'cart' key" and "[]" (every read is          *)
(*                   data.get('cart', []))                                 *)
(*   user_results    bot.py user_results, keyed by user id                 *)
(*   cache, last_update   CurrencyService fields, cache[pair] = 0: no entry*)
(*   fetched         history of the service: the raw rate the provider     *)
(*                   gave last for each pair and when (at = -1: never)     *)
(*   now             time.time()                                           *)
(*   last            the update handled last and what it answered          *)
(*   updates         number of updates handled so far                      *)
(***************************************************************************)
VARIABLES fsm, data, user_results, cache, last_update, fetched, now, last, updates,
          calculation_data

vars == <<fsm, data, user_results, cache, last_update, fetched, now, last, updates,
          calculation_data>>

MaxTicks == 1
MaxUpdates == 11
TickSeconds == cache_timeout

Pairs == {"EUR_RUB", "USD_RUB"}

NoProduct == [k |-> "absent", v |-> 0]

EmptyData ==
    [cart |-> <<>>, original_price |-> AbsentN, delivery_type |-> AbsentS,
     weight |-> AbsentN, product_link |-> AbsentS, product_features |-> AbsentS,
     selected_product |-> NoProduct, name |-> AbsentS, phone_number |-> AbsentS,
     email |-> AbsentS, address |-> AbsentS]

\* state.set_data({'cart': cart})
OnlyCart(cart) == [EmptyData EXCEPT !.cart = cart]

NoResults == [has |-> FALSE, results |-> <<>>, current_index |-> 0]

NeverFetched == [p \in Pairs |-> [rate |-> 0, at |-> 0 - 1]]

\* one handled update: the handler, the session, the kind of answer, the sum
\* of the item totals the rendering displayed (-1: none), the 'total' of the
\* result of calculate_cart_total in choose_weight (-1: none), whether
\* convert_price gave a figure, the pair of a get_exchange_rate call, the
\* index and the item a removal popped,
\* whether the update before it was a removal at the same index in the same
\* session, and what the order submission attempted and achieved
Ev(op, u, reply) ==
    [op |-> op, u |-> u, reply |-> reply, shown |-> 0 - 1, result |-> 0 - 1,
     rate |-> "unused", pair |-> "", answer |-> "", tier |-> "",
     input |-> NoInput,
     index |-> 0 - 1, removed |-> <<>>, again |-> FALSE, attempts |-> <<>>,
     written |-> FALSE, notified |-> FALSE, order_id |-> 0 - 1, stored_id |-> 0 - 1]

Init ==
    /\ fsm = [u \in Users |-> "none"]
    /\ data = [u \in Users |-> EmptyData]
    /\ user_results = [u \in Users |-> NoResults]
    /\ cache = [p \in Pairs |-> 0]
    /\ last_update = 0
    /\ fetched = NeverFetched
    /\ now = 0
    /\ last = Ev("start", 0, "none")
    /\ updates = 0
    /\ calculation_data = [original_price |-> AbsentN, final_price |-> AbsentN]

(***************************************************************************)
(* services/currency_service.py                                            *)
(***************************************************************************)
\* a cache check that forgets an entry after half the interval
CacheFreshHalf(pair) ==
    cache[pair] # 0 /\ (now - last_update) < cache_timeout \div 2

\* get_exchange_rate: the cache entry is served when present and
\* now - last_update < cache_timeout; otherwise the provider is asked
CacheFresh(pair) == cache[pair] # 0 /\ (now - last_update) < cache_timeout

\* raw rate behind the returned rate * 1.035, 0 for None; answer is the raw
\* rate the provider would give, 0 for a failed request
get_exchange_rate(pair, answer) == IF CacheFresh(pair) THEN cache[pair] ELSE answer

\* the cache and the last-update time after the call
CacheAfter(pair, answer) ==
    IF ~CacheFresh(pair) /\ answer # 0 THEN [cache EXCEPT ![pair] = answer] ELSE cache

\* a last-update time that a failed request moves as well
LastUpdateAfterAnyAnswer(pair, answer) ==
    IF ~CacheFresh(pair) THEN now ELSE last_update

LastUpdateAfter(pair, answer) ==
    IF ~CacheFresh(pair) /\ answer # 0 THEN now ELSE last_update

\* what the provider gave last for each pair, and when
FetchedAfter(pair, answer) ==
    IF ~CacheFresh(pair) /\ answer # 0
    THEN [fetched EXCEPT ![pair] = [rate |-> answer, at |-> now]]
    ELSE fetched

\* convert_price(price) of the first call of a handler: TRUE when a figure is
\* returned, FALSE for None
convert_price(api) == get_exchange_rate("EUR_RUB", api.first) # 0

\* convert_price of the calls after the first one: a rate cached by an earlier
\* call of the same handler is fresh
convert_price_again(api) == convert_price(api) \/ api.rest # 0

\* the effect on the service of a handler that stops at a None of its first call
ConvertsOnce(api) ==
    /\ cache' = CacheAfter("EUR_RUB", api.first)
    /\ last_update' = LastUpdateAfter("EUR_RUB", api.first)
    /\ fetched' = FetchedAfter("EUR_RUB", api.first)

\* the effect on the service of a handler that calls convert_price again after
\* its first call
ConvertsAgain(api) ==
    LET answer == IF api.first # 0 THEN api.first ELSE api.rest
    IN  /\ cache' = CacheAfter("EUR_RUB", answer)
        /\ last_update' = LastUpdateAfter("EUR_RUB", answer)
        /\ fetched' = FetchedAfter("EUR_RUB", answer)

NoConvert == UNCHANGED <<cache, last_update, fetched>>

\* the rate get_exchange_rate returns for a raw rate, in thousandths:
\* rate * 1.035, and -1 for None
Returned(raw) == IF raw = 0 THEN 0 - 1 ELSE raw * 1035

\* one call get_exchange_rate(from, to) for the pair, the provider answering
\* the raw rate answer (0: non-success status, missing currency, exception);
\* rate "cached": served from the cache without a request, "fetched": the
\* provider was asked and answered, "none": it was asked and failed
get_exchange_rate_call(pair, answer) ==
    /\ cache' = CacheAfter(pair, answer)
    /\ last_update' = LastUpdateAfter(pair, answer)
    /\ fetched' = FetchedAfter(pair, answer)
    /\ last' = [Ev("get_exchange_rate", 0, "rate") EXCEPT
                   !.pair = pair,
                   !.result = Returned(get_exchange_rate(pair, answer)),
                   !.rate = IF CacheFresh(pair) THEN "cached"
                            ELSE IF answer # 0 THEN "fetched" ELSE "none"]
    /\ UNCHANGED <<fsm, data, user_results, now, updates, calculation_data>>

(***************************************************************************)
(* Cart items (the dicts appended to data['cart']).  quantity = 0: no      *)
(* 'quantity' key; delivery_cost_from_germany = NoCost, weight = -1,       *)
(* delivery_type_code = "": key absent (items added from search results).  *)
(***************************************************************************)
DataTier(d) == IF d.delivery_type.k = "val" THEN d.delivery_type.v ELSE ""
DataWeight(d) == IF d.weight.k = "val" THEN d.weight.v ELSE 0
DataPrice(d) == IF d.original_price.k = "val" THEN d.original_price.v ELSE 0
DataText(field) == IF field.k = "val" THEN field.v ELSE ""

\* the calculation of handle_quantity_calculated, handle_custom_quantity_calculated
\* and add_calculated_to_cart raises TypeError on a None price or a None cost
AddRaises(d) ==
    \/ d.original_price.k = "none"
    \/ get_delivery_cost(DataTier(d), DataWeight(d)) = NoCost

\* an item whose commission leaves out the leg to the warehouse
calculated_product_without_warehouse(d, quantity) ==
    LET original_price == DataPrice(d)
        delivery_cost_from_germany == get_delivery_cost(DataTier(d), DataWeight(d))
        original_price_without_vat == Round2(DPct(Dec(original_price), 81))
        subtotal == original_price_without_vat + delivery_cost_from_germany
        service_commission == Round2(DPct(Dec(subtotal), 15))
        total == subtotal + service_commission
    IN  [source |-> "calc", price |-> original_price,
         original_price |-> original_price,
         original_price_without_vat |-> original_price_without_vat,
         delivery_type_code |-> DataTier(d), weight |-> DataWeight(d),
         delivery_cost_from_germany |-> delivery_cost_from_germany,
         service_commission |-> service_commission, total |-> total,
         quantity |-> quantity, link |-> DataText(d.product_link),
         product_features |-> DataText(d.product_features)]

calculated_product(d, quantity) ==
    LET original_price == DataPrice(d)
        delivery_cost_from_germany == get_delivery_cost(DataTier(d), DataWeight(d))
        original_price_without_vat == Round2(DPct(Dec(original_price), 81))
        subtotal == original_price_without_vat + delivery_cost_to_warehouse
                        + delivery_cost_from_germany
        service_commission == Round2(DPct(Dec(subtotal), 15))
        total == subtotal + service_commission
    IN  [source |-> "calc", price |-> original_price,
         original_price |-> original_price,
         original_price_without_vat |-> original_price_without_vat,
         delivery_type_code |-> DataTier(d), weight |-> DataWeight(d),
         delivery_cost_from_germany |-> delivery_cost_from_germany,
         service_commission |-> service_commission, total |-> total,
         quantity |-> quantity, link |-> DataText(d.product_link),
         product_features |-> DataText(d.product_features)]

(***************************************************************************)
(* Cart rendering: the per-item total and the "ОБЩАЯ СУММА ЗАКАЗА" line.   *)
(***************************************************************************)
ItemQuantity(product) == IF product.quantity = 0 THEN 1 ELSE product.quantity

\* price_without_vat of the renderers: the stored value, or round(price * 0.81, 2)
ItemNet(product) ==
    IF product.original_price_without_vat # 0
    THEN product.original_price_without_vat
    ELSE Round2(DPct(Dec(product.price), 81))

\* product.get('delivery_cost_from_germany', 12.94)
ItemDelivery(product) ==
    IF product.delivery_cost_from_germany = NoCost THEN 1294
    ELSE product.delivery_cost_from_germany

\* 'total' of one item in cart_handler and cart_callback
ItemTotalTimesQuantity(product) ==
    LET quantity == ItemQuantity(product)
        total_price_without_vat == ItemNet(product) * quantity
        subtotal == total_price_without_vat + delivery_cost_to_warehouse
                        + ItemDelivery(product)
        service_commission == Round2(DPct(Dec(subtotal), 15))
    IN  IF product.service_commission # 0 /\ product.total # 0
        THEN product.total * quantity
        ELSE subtotal + service_commission

\* 'total' of one item in remove_item_callback and cart_next_callback
ItemTotalPerUnit(product) ==
    LET subtotal == ItemNet(product) + delivery_cost_to_warehouse + ItemDelivery(product)
        service_commission == Round2(DPct(Dec(subtotal), 15))
    IN  IF product.service_commission # 0 /\ product.total # 0
        THEN product.total
        ELSE subtotal + service_commission

RECURSIVE total_euro_with_quantity(_)
total_euro_with_quantity(cart) ==
    IF cart = <<>> THEN 0
    ELSE ItemTotalTimesQuantity(Head(cart)) + total_euro_with_quantity(Tail(cart))

RECURSIVE total_euro_per_unit(_)
total_euro_per_unit(cart) ==
    IF cart = <<>> THEN 0
    ELSE ItemTotalPerUnit(Head(cart)) + total_euro_per_unit(Tail(cart))

\* a pop that takes the item after the one asked for
PopNext(cart, item_index) ==
    [j \in 1..(Len(cart) - 1) |-> IF j <= item_index + 1 THEN cart[j] ELSE cart[j + 1]]

\* cart.pop(item_index), item_index counted from 0
Pop(cart, item_index) ==
    [j \in 1..(Len(cart) - 1) |-> IF j <= item_index THEN cart[j] ELSE cart[j + 1]]

\* the ИТОГО of the quote choose_weight displays
final_price_without_vat(original_price, delivery_type, weight) ==
    LET delivery_cost == get_delivery_cost(delivery_type, weight)
        original_price_without_vat == DPct(Dec(original_price), 81)
        base == DAdd(DAdd(original_price_without_vat, Dec(delivery_cost_to_warehouse)),
                     Dec(delivery_cost))
        service_commission_amount == DPct(base, 15)
        insurance_fee_amount ==
            DPct(DAdd(original_price_without_vat, service_commission_amount), 3)
    IN  Round2(DAdd(DAdd(base, service_commission_amount), insurance_fee_amount))

\* total_cost of the order summary of process_address
total_cost(cart_items) ==
    LET RECURSIVE total_products_without_vat(_)
        total_products_without_vat(items) ==
            IF items = <<>> THEN 0
            ELSE (IF Head(items).original_price_without_vat = 0
                     \/ Head(items).original_price = 0
                  THEN Round2(DPct(Dec(Head(items).price), 81))
                  ELSE Head(items).original_price_without_vat)
                 + total_products_without_vat(Tail(items))
        first_product == cart_items[1]
        subtotal == total_products_without_vat(cart_items) + delivery_cost_to_warehouse
                        + get_delivery_cost(first_product.delivery_type_code,
                                            first_product.weight)
    IN  subtotal + Round2(DPct(Dec(subtotal), 15))

(***************************************************************************)
(* Handlers of bot.py and order_handlers.py.  A handler that raises keeps  *)
(* the writes it made before the exception and answers nothing (reply      *)
(* "raised").  The keyboards get_delivery_type_keyboard and                *)
(* get_delivery_type_keyboard_for_calculation that bot.py imports are      *)
(* taken to return a keyboard.  Keys of the data dict that no handler      *)
(* reads back (final_price, calculation_data, calculated_price,            *)
(* selected_delivery_type) are left out; selected_product_index is present *)
(* exactly when selected_product is.                                       *)
(***************************************************************************)
\* an update is counted while the walk through the whole bot is on
\* (updates >= 0), and the walk ends after MaxUpdates updates
Counted ==
    IF updates < 0 THEN UNCHANGED updates
    ELSE updates < MaxUpdates /\ updates' = updates + 1

\* a storage that keeps one state and one data dict for every chat
SessOfAll(u, st, d) ==
    /\ fsm' = [v \in Users |-> st]
    /\ data' = [v \in Users |-> d]

Sess(u, st, d) ==
    /\ fsm' = [fsm EXCEPT ![u] = st]
    /\ data' = [data EXCEPT ![u] = d]

\* the answer of a cart rendering; total_euro is the sum of the ИТОГО lines of
\* the items, displayed as "ОБЩАЯ СУММА ЗАКАЗА" when len(cart) > 1
Rendered(op, u, total_euro, converted) ==
    IF converted
    THEN [Ev(op, u, "cart_view") EXCEPT !.rate = "ok", !.shown = total_euro]
    ELSE [Ev(op, u, "raised") EXCEPT !.rate = "none"]

\* states whose message handlers are registered before back_handler
CalcTextStates == {"waiting_for_original_price", "waiting_for_product_link",
                   "waiting_for_product_features"}

\* states whose message handlers are registered before clear_cart_reply_handler
OrderTextStates == {"waiting_for_name", "waiting_for_phone", "waiting_for_email",
                    "waiting_for_address"}

\* states with a message handler of their own
TextStates == CalcTextStates \cup OrderTextStates
                \cup {"waiting_for_query", "waiting_for_custom_quantity_search",
                      "waiting_for_custom_quantity_calculated"}

\* cmd_start, on_go_clicked and the help, how_to_use, payment, support,
\* contacts, about, contact_*, start_order, back_to_order, order_from_cart and
\* no_link callbacks: an answer only
info_callback(u) ==
    /\ last' = Ev("info_callback", u, "info")
    /\ NoConvert
    /\ UNCHANGED <<fsm, data, user_results, now>>
    /\ Counted
    /\ UNCHANGED calculation_data

\* a text no other handler takes
echo_message(u) ==
    /\ fsm[u] \notin TextStates
    /\ last' = Ev("echo_message", u, "echo")
    /\ NoConvert
    /\ UNCHANGED <<fsm, data, user_results, now>>
    /\ Counted
    /\ UNCHANGED calculation_data

search_handler(u) ==
    /\ Sess(u, "waiting_for_query", OnlyCart(data[u].cart))
    /\ last' = Ev("search_handler", u, "ask_query")
    /\ NoConvert
    /\ UNCHANGED <<user_results, now>>
    /\ Counted
    /\ UNCHANGED calculation_data

start_search_callback(u) ==
    /\ Sess(u, "waiting_for_query", data[u])
    /\ last' = Ev("start_search_callback", u, "ask_query")
    /\ NoConvert
    /\ UNCHANGED <<user_results, now>>
    /\ Counted
    /\ UNCHANGED calculation_data

about_handler(u) ==
    /\ Sess(u, fsm[u], OnlyCart(data[u].cart))
    /\ last' = Ev("about_handler", u, "about")
    /\ NoConvert
    /\ UNCHANGED <<user_results, now>>
    /\ Counted
    /\ UNCHANGED calculation_data

contacts_handler(u) ==
    /\ Sess(u, fsm[u], OnlyCart(data[u].cart))
    /\ last' = Ev("contacts_handler", u, "support")
    /\ NoConvert
    /\ UNCHANGED <<user_results, now>>
    /\ Counted
    /\ UNCHANGED calculation_data

back_handler(u) ==
    /\ fsm[u] \notin CalcTextStates
    /\ Sess(u, fsm[u], OnlyCart(data[u].cart))
    /\ last' = Ev("back_handler", u, "main_menu")
    /\ NoConvert
    /\ UNCHANGED <<user_results, now>>
    /\ Counted
    /\ UNCHANGED calculation_data

back_to_main_callback(u) ==
    /\ Sess(u, fsm[u], OnlyCart(data[u].cart))
    /\ last' = Ev("back_to_main_callback", u, "main_menu")
    /\ NoConvert
    /\ UNCHANGED <<user_results, now>>
    /\ Counted
    /\ UNCHANGED calculation_data

\* a cart view that writes the displayed total of each item back into the item
cart_handler_repricing(u, api) ==
    LET cart == data[u].cart
        repriced == [j \in 1..Len(cart) |->
                        [cart[j] EXCEPT !.total = ItemTotalTimesQuantity(cart[j])]]
    IN  /\ Sess(u, fsm[u], OnlyCart(repriced))
        /\ IF cart = <<>>
           THEN /\ last' = Ev("cart_handler", u, "cart_empty")
                /\ NoConvert
           ELSE /\ ConvertsAgain(api)
                /\ last' = Rendered("cart_handler", u, total_euro_with_quantity(cart),
                                    convert_price(api))
        /\ UNCHANGED <<user_results, now>>
        /\ Counted
        /\ UNCHANGED calculation_data

\* the first figure is formatted after the second call was made
cart_handler(u, api) ==
    LET cart == data[u].cart
    IN  /\ Sess(u, fsm[u], OnlyCart(cart))
        /\ IF cart = <<>>
           THEN /\ last' = Ev("cart_handler", u, "cart_empty")
                /\ NoConvert
           ELSE /\ ConvertsAgain(api)
                /\ last' = Rendered("cart_handler", u, total_euro_with_quantity(cart),
                                    convert_price(api))
        /\ UNCHANGED <<user_results, now>>
        /\ Counted
        /\ UNCHANGED calculation_data

cart_callback(u, api) ==
    LET cart == data[u].cart
    IN  /\ UNCHANGED <<fsm, data>>
        /\ IF cart = <<>>
           THEN /\ last' = Ev("cart_callback", u, "cart_empty")
                /\ NoConvert
           ELSE /\ ConvertsAgain(api)
                /\ last' = Rendered("cart_callback", u, total_euro_with_quantity(cart),
                                    convert_price(api))
        /\ UNCHANGED <<user_results, now>>
        /\ Counted
        /\ UNCHANGED calculation_data

cart_next_callback(u, api) ==
    LET cart == data[u].cart
    IN  /\ UNCHANGED <<fsm, data>>
        /\ IF cart = <<>>
           THEN /\ last' = Ev("cart_next_callback", u, "cart_empty")
                /\ NoConvert
           ELSE /\ ConvertsOnce(api)
                /\ last' = Rendered("cart_next_callback", u, total_euro_per_unit(cart),
                                    convert_price(api))
        /\ UNCHANGED <<user_results, now>>
        /\ Counted
        /\ UNCHANGED calculation_data

\* delivery_cost_to_warehouse is read before it is assigned: UnboundLocalError
back_to_cart_callback(u) ==
    /\ last' = Ev("back_to_cart_callback", u, "raised")
    /\ NoConvert
    /\ UNCHANGED <<fsm, data, user_results, now>>
    /\ Counted
    /\ UNCHANGED calculation_data

clear_cart_callback(u) ==
    /\ Sess(u, fsm[u], [data[u] EXCEPT !.cart = <<>>])
    /\ last' = Ev("clear_cart_callback", u, "cart_cleared")
    /\ NoConvert
    /\ UNCHANGED <<user_results, now>>
    /\ Counted
    /\ UNCHANGED calculation_data

clear_cart_reply_handler(u) ==
    /\ fsm[u] \notin CalcTextStates \cup OrderTextStates
    /\ Sess(u, fsm[u], [data[u] EXCEPT !.cart = <<>>])
    /\ last' = Ev("clear_cart_reply_handler", u, "cart_cleared")
    /\ NoConvert
    /\ UNCHANGED <<user_results, now>>
    /\ Counted
    /\ UNCHANGED calculation_data

\* an index check that takes the last position for out of range
ValidIndexButLast(item_index, cart) ==
    0 <= item_index /\ item_index < Len(cart) - 1

\* 0 <= item_index < len(cart)
ValidIndex(item_index, cart) ==
    0 <= item_index /\ item_index < Len(cart)

\* callback "remove_item_<text>": int(callback.data.split("_")[2])
remove_item_callback(u, text, api) ==
    LET item_index == ParseInt(text)
        cart == data[u].cart
        popped == Pop(cart, item_index.v)
        again == /\ last.op = "remove_item_callback"
                 /\ last.u = u
                 /\ last.removed # <<>>
                 /\ last.index = item_index.v
    IN  /\ UNCHANGED fsm
        /\ IF ~item_index.ok
           THEN /\ UNCHANGED data
                /\ NoConvert
                /\ last' = Ev("remove_item_callback", u, "remove_error")
           ELSE IF ValidIndex(item_index.v, cart)
           THEN /\ data' = [data EXCEPT ![u].cart = popped]
                /\ IF popped = <<>>
                   THEN /\ NoConvert
                        /\ last' = [Ev("remove_item_callback", u, "cart_empty") EXCEPT
                                       !.index = item_index.v,
                                       !.removed = <<cart[item_index.v + 1]>>,
                                       !.again = again]
                   ELSE /\ ConvertsOnce(api)
                        /\ last' = [Rendered("remove_item_callback", u,
                                             total_euro_per_unit(popped),
                                             convert_price(api)) EXCEPT
                                       !.index = item_index.v,
                                       !.removed = <<cart[item_index.v + 1]>>,
                                       !.again = again]
           ELSE /\ UNCHANGED data
                /\ NoConvert
                /\ last' = [Ev("remove_item_callback", u, "item_not_found") EXCEPT
                               !.index = item_index.v]
        /\ UNCHANGED <<user_results, now>>
        /\ Counted
        /\ UNCHANGED calculation_data

(***************************************************************************)
(* The price calculation dialog.                                           *)
(***************************************************************************)
\* the "🧮 Рассчитать доставку" message
start_price_calculation(u) ==
    /\ Sess(u, "waiting_for_original_price", OnlyCart(data[u].cart))
    /\ last' = Ev("start_price_calculation", u, "ask_price")
    /\ NoConvert
    /\ UNCHANGED <<user_results, now>>
    /\ Counted
    /\ UNCHANGED calculation_data

\* the "start_price_calculation" callback; the calculation_data key it adds
\* afterwards is an empty dictionary that no handler reads
start_price_calculation_callback(u) ==
    /\ Sess(u, "waiting_for_original_price", OnlyCart(data[u].cart))
    /\ last' = Ev("start_price_calculation_callback", u, "ask_price")
    /\ NoConvert
    /\ UNCHANGED <<user_results, now>>
    /\ Counted
    /\ UNCHANGED calculation_data

\* a restart of the calculation that keeps the data of the session
calculate_price_again_product_keeps_data(u) ==
    /\ Sess(u, "waiting_for_original_price", data[u])
    /\ last' = Ev("calculate_price_again_product", u, "ask_price")
    /\ NoConvert
    /\ UNCHANGED <<user_results, now>>
    /\ Counted
    /\ UNCHANGED calculation_data

calculate_price_again_product(u) ==
    /\ Sess(u, "waiting_for_original_price", OnlyCart(data[u].cart))
    /\ last' = Ev("calculate_price_again_product", u, "ask_price")
    /\ NoConvert
    /\ UNCHANGED <<user_results, now>>
    /\ Counted
    /\ UNCHANGED calculation_data

cancel_price_calculation(u) ==
    /\ Sess(u, "none", OnlyCart(data[u].cart))
    /\ last' = Ev("cancel_price_calculation", u, "calculation_cancelled")
    /\ NoConvert
    /\ UNCHANGED <<user_results, now>>
    /\ Counted
    /\ UNCHANGED calculation_data

\* a price entry that stops at the customs-duty notice
input_original_price_stops_at_duty(u, text) ==
    LET original_price == ParsePrice(text)
    IN  /\ fsm[u] = "waiting_for_original_price"
        /\ IF original_price.ok
           THEN /\ Sess(u, IF original_price.v > 20000 THEN fsm[u]
                           ELSE "waiting_for_delivery_type",
                        [data[u] EXCEPT !.original_price = ValN(original_price.v)])
                /\ last' = [Ev("input_original_price", u,
                                  IF original_price.v > 20000 THEN "duty_notice"
                                  ELSE "ask_tier")
                               EXCEPT !.input = TextInput(text)]
           ELSE /\ UNCHANGED <<fsm, data>>
                /\ last' = [Ev("input_original_price", u, "price_error")
                               EXCEPT !.input = TextInput(text)]
        /\ NoConvert
        /\ UNCHANGED <<user_results, now>>
        /\ Counted
        /\ UNCHANGED calculation_data

input_original_price(u, text) ==
    LET original_price == ParsePrice(text)
    IN  /\ fsm[u] = "waiting_for_original_price"
        /\ IF original_price.ok
           THEN /\ Sess(u, "waiting_for_delivery_type",
                        [data[u] EXCEPT !.original_price = ValN(original_price.v)])
                /\ last' = [Ev("input_original_price", u,
                                  IF original_price.v > 20000 THEN "duty_notice"
                                  ELSE "ask_tier")
                               EXCEPT !.input = TextInput(text)]
           ELSE /\ UNCHANGED <<fsm, data>>
                /\ last' = [Ev("input_original_price", u, "price_error")
                               EXCEPT !.input = TextInput(text)]
        /\ NoConvert
        /\ UNCHANGED <<user_results, now>>
        /\ Counted
        /\ UNCHANGED calculation_data

\* callback "delivery_<tier>"
choose_delivery_type(u, tier) ==
    /\ fsm[u] = "waiting_for_delivery_type"
    /\ Sess(u, "waiting_for_weight", [data[u] EXCEPT !.delivery_type = ValS(tier)])
    /\ last' = [Ev("choose_delivery_type", u, "ask_weight") EXCEPT !.tier = tier]
    /\ NoConvert
    /\ UNCHANGED <<user_results, now>>
    /\ Counted
    /\ UNCHANGED calculation_data

back_to_delivery_type_for_calculation(u) ==
    /\ fsm[u] = "waiting_for_weight"
    /\ Sess(u, "waiting_for_delivery_type", data[u])
    /\ last' = Ev("back_to_delivery_type_for_calculation", u, "ask_tier")
    /\ NoConvert
    /\ UNCHANGED <<user_results, now>>
    /\ Counted
    /\ UNCHANGED calculation_data

\* callback "weight_<tier>_<text>": the tier is the one of the callback data.
\* data['original_price'] raises KeyError on an absent key, the arithmetic
\* raises TypeError on a None price or a None cost; the result of the first
\* convert_price call is not displayed, the later ones are formatted after
\* set_state
choose_weight(u, tier, text, api) ==
    LET weight == ParseWeight(text)
        stored == [data[u] EXCEPT !.weight = ValN(weight.v)]
        delivery_cost == get_delivery_cost(tier, weight.v)
    IN  /\ fsm[u] = "waiting_for_weight"
        /\ IF ~weight.ok
           THEN /\ UNCHANGED <<fsm, data>>
                /\ NoConvert
                /\ last' = Ev("choose_weight", u, "weight_error")
           ELSE IF data[u].original_price.k # "val" \/ delivery_cost = NoCost
           THEN /\ Sess(u, fsm[u], stored)
                /\ NoConvert
                /\ last' = [Ev("choose_weight", u, "raised") EXCEPT !.tier = tier]
           ELSE /\ Sess(u, "waiting_for_product_link", stored)
                /\ ConvertsAgain(api)
                /\ last' =
                     IF convert_price_again(api)
                     THEN [Ev("choose_weight", u, "quote") EXCEPT
                              !.tier = tier,
                              !.rate = "ok",
                              !.result = calculate_cart_total(
                                             data[u].original_price.v, tier,
                                             weight.v).total,
                              !.shown = final_price_without_vat(
                                            data[u].original_price.v, tier, weight.v)]
                     ELSE [Ev("choose_weight", u, "raised") EXCEPT
                              !.tier = tier,
                              !.rate = "none",
                              !.result = calculate_cart_total(
                                             data[u].original_price.v, tier,
                                             weight.v).total]
        /\ UNCHANGED <<user_results, now>>
        /\ Counted
        /\ UNCHANGED calculation_data

\* a link handler that takes any text for a link
input_product_link_any_text(u, text) ==
    /\ fsm[u] = "waiting_for_product_link"
    /\ Sess(u, "waiting_for_product_features",
            [data[u] EXCEPT !.product_link = ValS(text)])
    /\ last' = [Ev("input_product_link", u, "ask_features")
                   EXCEPT !.input = TextInput(text)]
    /\ NoConvert
    /\ UNCHANGED <<user_results, now>>
    /\ Counted
    /\ UNCHANGED calculation_data

\* message.text.strip() is the text itself: a message text is delivered
\* without surrounding whitespace
input_product_link(u, text) ==
    /\ fsm[u] = "waiting_for_product_link"
    /\ IF StartsWithHttp(text)
       THEN /\ Sess(u, "waiting_for_product_features",
                    [data[u] EXCEPT !.product_link = ValS(text)])
            /\ last' = [Ev("input_product_link", u, "ask_features")
                           EXCEPT !.input = TextInput(text)]
       ELSE /\ UNCHANGED <<fsm, data>>
            /\ last' = [Ev("input_product_link", u, "link_error")
                           EXCEPT !.input = TextInput(text)]
    /\ NoConvert
    /\ UNCHANGED <<user_results, now>>
    /\ Counted
    /\ UNCHANGED calculation_data

input_product_features(u, text) ==
    /\ fsm[u] = "waiting_for_product_features"
    /\ Sess(u, "showing_result", [data[u] EXCEPT !.product_features = ValS(text)])
    /\ last' = Ev("input_product_features", u, "offer_add")
    /\ NoConvert
    /\ UNCHANGED <<user_results, now>>
    /\ Counted
    /\ UNCHANGED calculation_data

\* product_link[:50] raises TypeError on a None left by add_calculated_to_cart,
\* after set_state
select_quantity_calculated(u) ==
    /\ Sess(u, "waiting_for_quantity_calculated", data[u])
    /\ last' = Ev("select_quantity_calculated", u,
                  IF data[u].product_link.k = "none"
                     \/ data[u].product_features.k = "none"
                  THEN "raised" ELSE "ask_quantity")
    /\ NoConvert
    /\ UNCHANGED <<user_results, now>>
    /\ Counted
    /\ UNCHANGED calculation_data

\* the part the two quantity handlers of a calculated item share, once the
\* quantity is parsed: build the item, append it, state.clear(), put the cart back
AppendCalculated(op, u, quantity) ==
    IF AddRaises(data[u])
    THEN /\ UNCHANGED <<fsm, data>>
         /\ last' = Ev(op, u, "raised")
    ELSE /\ Len(data[u].cart) < MaxCart
         /\ Sess(u, "none",
                 OnlyCart(Append(data[u].cart, calculated_product(data[u], quantity))))
         /\ last' = Ev(op, u, "added")

\* callback "quantity_calculated_<text>"
handle_quantity_calculated(u, text) ==
    LET quantity == ParseInt(text)
    IN  /\ fsm[u] = "waiting_for_quantity_calculated"
        /\ IF text = "custom"
           THEN /\ Sess(u, "waiting_for_custom_quantity_calculated", data[u])
                /\ last' = Ev("handle_quantity_calculated", u, "ask_custom_quantity")
           ELSE IF ~quantity.ok \/ quantity.v < 1 \/ quantity.v > 999
           THEN /\ UNCHANGED <<fsm, data>>
                /\ last' = Ev("handle_quantity_calculated", u, "quantity_error")
           ELSE AppendCalculated("handle_quantity_calculated", u, quantity.v)
        /\ NoConvert
        /\ UNCHANGED <<user_results, now>>
        /\ Counted
        /\ UNCHANGED calculation_data

handle_custom_quantity_calculated(u, text) ==
    LET quantity == ParseInt(text)
    IN  /\ fsm[u] = "waiting_for_custom_quantity_calculated"
        /\ IF ~quantity.ok \/ quantity.v < 1 \/ quantity.v > 999
           THEN /\ UNCHANGED <<fsm, data>>
                /\ last' = Ev("handle_custom_quantity_calculated", u, "quantity_error")
           ELSE AppendCalculated("handle_custom_quantity_calculated", u, quantity.v)
        /\ NoConvert
        /\ UNCHANGED <<user_results, now>>
        /\ Counted
        /\ UNCHANGED calculation_data

\* an add that leaves the price, the tier and the weight in the data
add_calculated_to_cart_keeps_quote(u) ==
    /\ IF AddRaises(data[u])
       THEN /\ UNCHANGED <<fsm, data>>
            /\ last' = Ev("add_calculated_to_cart", u, "raised")
       ELSE /\ Len(data[u].cart) < MaxCart
            /\ Sess(u, fsm[u],
                    [data[u] EXCEPT
                        !.cart = Append(data[u].cart, calculated_product(data[u], 0))])
            /\ last' = Ev("add_calculated_to_cart", u, "added")
    /\ NoConvert
    /\ UNCHANGED <<user_results, now>>
    /\ Counted
    /\ UNCHANGED calculation_data

\* the item has no 'quantity' key; the scratch keys are set to None and the
\* dialog state is left as it is
add_calculated_to_cart(u) ==
    /\ IF AddRaises(data[u])
       THEN /\ UNCHANGED <<fsm, data>>
            /\ last' = Ev("add_calculated_to_cart", u, "raised")
       ELSE /\ Len(data[u].cart) < MaxCart
            /\ Sess(u, fsm[u],
                    [data[u] EXCEPT
                        !.cart = Append(data[u].cart, calculated_product(data[u], 0)),
                        !.original_price = NoneN, !.delivery_type = NoneS,
                        !.weight = NoneN, !.product_link = NoneS,
                        !.product_features = NoneS])
            /\ last' = Ev("add_calculated_to_cart", u, "added")
    /\ NoConvert
    /\ UNCHANGED <<user_results, now>>
    /\ Counted
    /\ UNCHANGED calculation_data

(***************************************************************************)
(* Product search.  search_idealo_products returns [] both when the        *)
(* provider fails and when it finds nothing.                               *)
(***************************************************************************)
SearchAnswers == {"listing", "nothing", "failure"}

search_idealo_products(answer) == IF answer = "listing" THEN SearchListing ELSE <<>>

\* results[index] of a Python list: a negative index counts from the end
InRange(list, index) == 0 - Len(list) <= index /\ index < Len(list)

GetItem(list, index) == IF index < 0 THEN list[Len(list) + index + 1] ELSE list[index + 1]

\* len(query) of the texts typed as a query
len(query) == CASE query = "nike zoom" -> 9 [] query = "n" -> 1 [] OTHER -> 0

\* show_product_card converts the price once and checks the result
process_search_query(u, query, answer, api) ==
    LET results == search_idealo_products(answer)
    IN  /\ fsm[u] = "waiting_for_query"
        /\ IF len(query) < 2
           THEN /\ UNCHANGED <<fsm, data, user_results>>
                /\ NoConvert
                /\ last' = Ev("process_search_query", u, "query_too_short")
           ELSE IF results = <<>>
           THEN /\ UNCHANGED <<fsm, data, user_results>>
                /\ NoConvert
                /\ last' = [Ev("process_search_query", u, "nothing_found")
                               EXCEPT !.answer = answer]
           ELSE /\ user_results' = [user_results EXCEPT
                                       ![u] = [has |-> TRUE, results |-> results,
                                               current_index |-> 0]]
                /\ Sess(u, "showing_results", data[u])
                /\ ConvertsOnce(api)
                /\ last' = [Ev("process_search_query", u, "product_card")
                               EXCEPT !.answer = answer]
        /\ UNCHANGED now
        /\ Counted
        /\ UNCHANGED calculation_data

\* callback "nav_<text>"
navigation_callback(u, text, api) ==
    LET index == ParseInt(text)
    IN  /\ UNCHANGED <<fsm, data>>
        /\ IF ~index.ok
           THEN /\ UNCHANGED user_results
                /\ NoConvert
                /\ last' = Ev("navigation_callback", u, "raised")
           ELSE IF ~user_results[u].has
           THEN /\ UNCHANGED user_results
                /\ NoConvert
                /\ last' = Ev("navigation_callback", u, "none")
           ELSE /\ user_results' = [user_results EXCEPT ![u].current_index = index.v]
                /\ IF 0 <= index.v /\ index.v < Len(user_results[u].results)
                   THEN /\ ConvertsOnce(api)
                        /\ last' = Ev("navigation_callback", u, "product_card")
                   ELSE /\ NoConvert
                        /\ last' = Ev("navigation_callback", u, "none")
        /\ UNCHANGED now
        /\ Counted
        /\ UNCHANGED calculation_data

\* callback "add_to_cart_<text>"; results[index] raises IndexError
add_to_cart_callback(u, text) ==
    LET index == ParseInt(text)
    IN  /\ IF ~index.ok
           THEN /\ UNCHANGED <<fsm, data>>
                /\ last' = Ev("add_to_cart_callback", u, "raised")
           ELSE IF ~user_results[u].has
           THEN /\ UNCHANGED <<fsm, data>>
                /\ last' = Ev("add_to_cart_callback", u, "product_not_found")
           ELSE IF ~InRange(user_results[u].results, index.v)
           THEN /\ UNCHANGED <<fsm, data>>
                /\ last' = Ev("add_to_cart_callback", u, "raised")
           ELSE /\ Sess(u, "waiting_for_quantity_search",
                        [data[u] EXCEPT
                            !.selected_product =
                                [k |-> "val",
                                 v |-> GetItem(user_results[u].results, index.v).id]])
                /\ last' = Ev("add_to_cart_callback", u, "ask_quantity")
        /\ NoConvert
        /\ UNCHANGED <<user_results, now>>
        /\ Counted
        /\ UNCHANGED calculation_data

\* callback "quantity_search_<text>": the item is appended to the cart and
\* state.clear() then drops the whole data dict, the cart with it
handle_quantity_search(u, text) ==
    LET quantity == ParseInt(text)
    IN  /\ fsm[u] = "waiting_for_quantity_search"
        /\ IF text = "custom"
           THEN /\ Sess(u, "waiting_for_custom_quantity_search", data[u])
                /\ last' = Ev("handle_quantity_search", u, "ask_custom_quantity")
           ELSE IF ~quantity.ok \/ quantity.v < 1 \/ quantity.v > 999
           THEN /\ UNCHANGED <<fsm, data>>
                /\ last' = Ev("handle_quantity_search", u, "quantity_error")
           ELSE IF data[u].selected_product.k # "val"
           THEN /\ UNCHANGED <<fsm, data>>
                /\ last' = Ev("handle_quantity_search", u, "product_not_found")
           ELSE /\ Sess(u, "none", EmptyData)
                /\ last' = Ev("handle_quantity_search", u, "added")
        /\ NoConvert
        /\ UNCHANGED <<user_results, now>>
        /\ Counted
        /\ UNCHANGED calculation_data

handle_custom_quantity_search(u, text) ==
    LET quantity == ParseInt(text)
    IN  /\ fsm[u] = "waiting_for_custom_quantity_search"
        /\ IF ~quantity.ok \/ quantity.v < 1 \/ quantity.v > 999
           THEN /\ UNCHANGED <<fsm, data>>
                /\ last' = Ev("handle_custom_quantity_search", u, "quantity_error")
           ELSE IF data[u].selected_product.k # "val"
           THEN /\ Sess(u, "none", EmptyData)
                /\ last' = Ev("handle_custom_quantity_search", u, "product_not_found")
           ELSE /\ Sess(u, "none", EmptyData)
                /\ last' = Ev("handle_custom_quantity_search", u, "added")
        /\ NoConvert
        /\ UNCHANGED <<user_results, now>>
        /\ Counted
        /\ UNCHANGED calculation_data

\* state.clear(), then the card of the selected product when there is one
back_to_product_callback(u, api) ==
    /\ Sess(u, "none", EmptyData)
    /\ IF data[u].selected_product.k = "val" /\ user_results[u].has
       THEN /\ ConvertsOnce(api)
            /\ last' = Ev("back_to_product_callback", u, "product_card")
       ELSE /\ NoConvert
            /\ last' = Ev("back_to_product_callback", u, "main_menu")
    /\ UNCHANGED <<user_results, now>>
    /\ Counted
    /\ UNCHANGED calculation_data

(***************************************************************************)
(* Checkout (order_handlers.py, registered in bot.py).                     *)
(***************************************************************************)
payment_ok_callback(u) ==
    /\ Sess(u, "waiting_for_name", data[u])
    /\ last' = Ev("payment_ok_callback", u, "ask_name")
    /\ NoConvert
    /\ UNCHANGED <<user_results, now>>
    /\ Counted
    /\ UNCHANGED calculation_data

process_name(u, text) ==
    /\ fsm[u] = "waiting_for_name"
    /\ Sess(u, "waiting_for_phone", [data[u] EXCEPT !.name = ValS(text)])
    /\ last' = Ev("process_name", u, "ask_phone")
    /\ NoConvert
    /\ UNCHANGED <<user_results, now>>
    /\ Counted
    /\ UNCHANGED calculation_data

process_phone_number(u, text) ==
    /\ fsm[u] = "waiting_for_phone"
    /\ Sess(u, "waiting_for_email", [data[u] EXCEPT !.phone_number = ValS(text)])
    /\ last' = Ev("process_phone_number", u, "ask_email")
    /\ NoConvert
    /\ UNCHANGED <<user_results, now>>
    /\ Counted
    /\ UNCHANGED calculation_data

process_email(u, text) ==
    /\ fsm[u] = "waiting_for_email"
    /\ Sess(u, "waiting_for_address", [data[u] EXCEPT !.email = ValS(text)])
    /\ last' = Ev("process_email", u, "ask_address")
    /\ NoConvert
    /\ UNCHANGED <<user_results, now>>
    /\ Counted
    /\ UNCHANGED calculation_data

\* an address handler that shows the summary whatever the cart holds
process_address_any_cart(u, text, api) ==
    LET stored == [data[u] EXCEPT !.address = ValS(text)]
    IN  /\ fsm[u] = "waiting_for_address"
        /\ ConvertsAgain(api)
        /\ IF convert_price_again(api)
           THEN /\ Sess(u, "waiting_for_confirmation", stored)
                /\ last' = [Ev("process_address", u, "order_summary") EXCEPT
                               !.rate = "ok", !.shown = total_cost(stored.cart)]
           ELSE /\ Sess(u, fsm[u], stored)
                /\ last' = [Ev("process_address", u, "raised") EXCEPT
                               !.rate = "none"]
        /\ UNCHANGED <<user_results, now>>
        /\ Counted
        /\ UNCHANGED calculation_data

\* the address is stored first; the summary formats its converted figures
\* before set_state; format_price_with_rub, the first call, checks its result
process_address(u, text, api) ==
    LET stored == [data[u] EXCEPT !.address = ValS(text)]
    IN  /\ fsm[u] = "waiting_for_address"
        /\ IF stored.cart = <<>>
           THEN /\ Sess(u, fsm[u], stored)
                /\ NoConvert
                /\ last' = Ev("process_address", u, "cart_empty_error")
           ELSE /\ ConvertsAgain(api)
                /\ IF convert_price_again(api)
                   THEN /\ Sess(u, "waiting_for_confirmation", stored)
                        /\ last' = [Ev("process_address", u, "order_summary") EXCEPT
                                       !.rate = "ok", !.shown = total_cost(stored.cart)]
                   ELSE /\ Sess(u, fsm[u], stored)
                        /\ last' = [Ev("process_address", u, "raised") EXCEPT
                                       !.rate = "none"]
        /\ UNCHANGED <<user_results, now>>
        /\ Counted
        /\ UNCHANGED calculation_data

\* save_order_to_local_file: the answer of the disk
save_order_to_local_file(cart_items, disk) == cart_items # <<>> /\ disk = "ok"

\* save_order_to_sheets passes the cart list to calculate_cart_total as the
\* price, the TypeError is caught and False is returned before a row is appended
save_order_to_sheets(cart_items, sheets) == FALSE

send_order_to_manager(cart_items, manager) == manager = "ok"

\* a completion that reports success whatever the local write did
process_order_completion_lenient(cart_items, disk, sheets, manager) ==
    LET local_success == save_order_to_local_file(cart_items, disk)
        sheets_success == save_order_to_sheets(cart_items, sheets)
        manager_success == send_order_to_manager(cart_items, manager)
    IN  [attempts |-> <<"local", "sheets", "manager">>,
         written |-> local_success,
         appended |-> sheets_success,
         notified |-> manager_success,
         success |-> TRUE]

\* a completion that also fails when the operator was not notified
process_order_completion_strict(cart_items, disk, sheets, manager) ==
    LET local_success == save_order_to_local_file(cart_items, disk)
        sheets_success == save_order_to_sheets(cart_items, sheets)
        manager_success == send_order_to_manager(cart_items, manager)
        success == IF local_success /\ manager_success THEN TRUE ELSE FALSE
    IN  [attempts |-> <<"local", "sheets", "manager">>,
         written |-> local_success,
         appended |-> sheets_success,
         notified |-> manager_success,
         success |-> success]

\* process_order_completion: success starts True, the three steps run in
\* order, and only a failed local write sets success to False
process_order_completion(cart_items, disk, sheets, manager) ==
    LET local_success == save_order_to_local_file(cart_items, disk)
        sheets_success == save_order_to_sheets(cart_items, sheets)
        manager_success == send_order_to_manager(cart_items, manager)
        success == IF local_success THEN TRUE ELSE FALSE
    IN  [attempts |-> <<"local", "sheets", "manager">>,
         written |-> local_success,
         appended |-> sheets_success,
         notified |-> manager_success,
         success |-> success]

\* a placed order that empties the cart and leaves the rest of the data
OrderPlacedKeepsFields(u) == Sess(u, "none", [data[u] EXCEPT !.cart = <<>>])

\* a placed order: update_data(cart=[]) and then state.clear()
OrderPlaced(u) == Sess(u, "none", EmptyData)

\* a confirmation that submits whatever the cart holds
confirm_order_callback_unguarded(u, disk, sheets, manager, elapsed) ==
    LET cart_items == data[u].cart
        done == process_order_completion(cart_items, disk, sheets, manager)
    IN  /\ fsm[u] = "waiting_for_confirmation"
        /\ IF done.success
           THEN Sess(u, "none", EmptyData)
           ELSE UNCHANGED <<fsm, data>>
        /\ last' = [Ev("confirm_order_callback", u,
                       IF done.success THEN "order_success" ELSE "order_failed")
                    EXCEPT !.attempts = done.attempts,
                           !.written = done.written,
                           !.notified = done.notified,
                           !.order_id = now,
                           !.stored_id = IF done.written THEN now + elapsed
                                         ELSE 0 - 1]
        /\ NoConvert
        /\ UNCHANGED <<user_results, now>>
        /\ Counted
        /\ UNCHANGED calculation_data

\* callback "confirm_order"
\* order_id is the second of the clock at the confirmation; the record of
\* save_order_to_local_file takes the second of its own clock, elapsed later
confirm_order_callback(u, disk, sheets, manager, elapsed) ==
    LET cart_items == data[u].cart
        done == process_order_completion(cart_items, disk, sheets, manager)
    IN  /\ fsm[u] = "waiting_for_confirmation"
        /\ IF cart_items = <<>>
           THEN /\ UNCHANGED <<fsm, data>>
                /\ last' = Ev("confirm_order_callback", u, "cart_empty_error")
           ELSE /\ IF done.success
                   THEN OrderPlaced(u)
                   ELSE UNCHANGED <<fsm, data>>
                /\ last' = [Ev("confirm_order_callback", u,
                               IF done.success THEN "order_success" ELSE "order_failed")
                            EXCEPT !.attempts = done.attempts,
                                   !.written = done.written,
                                   !.notified = done.notified,
                                   !.order_id = now,
                                   !.stored_id = IF done.written THEN now + elapsed
                                                 ELSE 0 - 1]
        /\ NoConvert
        /\ UNCHANGED <<user_results, now>>
        /\ Counted
        /\ UNCHANGED calculation_data

\* a restart that resets the data of the session to its cart
restart_order_resets_data(u) ==
    /\ Sess(u, "waiting_for_name", OnlyCart(data[u].cart))
    /\ last' = Ev("restart_order", u, "ask_name")
    /\ NoConvert
    /\ UNCHANGED <<user_results, now>>
    /\ Counted
    /\ UNCHANGED calculation_data

restart_order(u) ==
    /\ Sess(u, "waiting_for_name",
            [data[u] EXCEPT !.name = NoneS, !.phone_number = NoneS,
                            !.email = NoneS, !.address = NoneS])
    /\ last' = Ev("restart_order", u, "ask_name")
    /\ NoConvert
    /\ UNCHANGED <<user_results, now>>
    /\ Counted
    /\ UNCHANGED calculation_data

cancel_order_handler(u) ==
    /\ Sess(u, fsm[u], OnlyCart(data[u].cart))
    /\ last' = Ev("cancel_order_handler", u, "order_cancelled")
    /\ NoConvert
    /\ UNCHANGED <<user_results, now>>
    /\ Counted
    /\ UNCHANGED calculation_data

\* time.time() moves on
Tick ==
    /\ now < MaxTicks * TickSeconds
    /\ now' = now + TickSeconds
    /\ last' = Ev("Tick", 0, "none")
    /\ UNCHANGED <<fsm, data, user_results, cache, last_update, fetched, updates, calculation_data>>

(***************************************************************************)
(* The whole bot: every update is handled by the first handler that        *)
(* matches it.  One session is walked through every handler from the       *)
(* state after construction, for MaxUpdates updates.                       *)
(***************************************************************************)
Visitors == {1}

MenuUpdate(u) ==
    \/ info_callback(u)
    \/ echo_message(u)
    \/ search_handler(u)
    \/ start_search_callback(u)
    \/ about_handler(u)
    \/ contacts_handler(u)
    \/ back_handler(u)
    \/ back_to_main_callback(u)

CartUpdate(u) ==
    \/ \E api \in ApiAnswers : cart_handler(u, api)
    \/ \E api \in ApiAnswers : cart_callback(u, api)
    \/ \E api \in ApiAnswers : cart_next_callback(u, api)
    \/ back_to_cart_callback(u)
    \/ clear_cart_callback(u)
    \/ clear_cart_reply_handler(u)
    \/ \E text \in FewIntTexts, api \in ApiAnswers : remove_item_callback(u, text, api)

CalculationUpdate(u) ==
    \/ start_price_calculation(u)
    \/ start_price_calculation_callback(u)
    \/ calculate_price_again_product(u)
    \/ cancel_price_calculation(u)
    \/ \E text \in PriceTexts : input_original_price(u, text)
    \/ \E tier \in TierInputs : choose_delivery_type(u, tier)
    \/ back_to_delivery_type_for_calculation(u)
    \/ \E tier \in TierInputs, text \in WeightTexts, api \in ApiAnswers :
            choose_weight(u, tier, text, api)
    \/ \E text \in LinkTexts : input_product_link(u, text)
    \/ \E text \in FeatureTexts : input_product_features(u, text)
    \/ select_quantity_calculated(u)
    \/ \E text \in QuantityTexts : handle_quantity_calculated(u, text)
    \/ \E text \in CustomQuantityTexts : handle_custom_quantity_calculated(u, text)
    \/ add_calculated_to_cart(u)

SearchUpdate(u) ==
    \/ \E query \in Queries, answer \in SearchAnswers, api \in ApiAnswers :
            process_search_query(u, query, answer, api)
    \/ \E text \in IndexTexts, api \in ApiAnswers : navigation_callback(u, text, api)
    \/ \E text \in IndexTexts : add_to_cart_callback(u, text)
    \/ \E text \in QuantityTexts : handle_quantity_search(u, text)
    \/ \E text \in CustomQuantityTexts : handle_custom_quantity_search(u, text)
    \/ \E api \in ApiAnswers : back_to_product_callback(u, api)

OrderUpdate(u) ==
    \/ payment_ok_callback(u)
    \/ \E text \in NameTexts : process_name(u, text)
    \/ \E text \in PhoneTexts : process_phone_number(u, text)
    \/ \E text \in EmailTexts : process_email(u, text)
    \/ \E text \in AddressTexts, api \in ApiAnswers : process_address(u, text, api)
    \/ \E disk \in DiskAnswers, sheets \in SheetsAnswers, manager \in ManagerAnswers,
          elapsed \in 0..1 :
            confirm_order_callback(u, disk, sheets, manager, elapsed)
    \/ restart_order(u)
    \/ cancel_order_handler(u)

Next ==
    \/ \E u \in Visitors : MenuUpdate(u)
    \/ \E u \in Visitors : CartUpdate(u)
    \/ \E u \in Visitors : CalculationUpdate(u)
    \/ \E u \in Visitors : SearchUpdate(u)
    \/ \E u \in Visitors : OrderUpdate(u)

Spec == Init /\ [][Next]_vars

(***************************************************************************)
(* Carts the program can hold: items that the calculation dialog appends   *)
(* for a typed price, a chosen weight and a chosen quantity.               *)
(***************************************************************************)
MaxLen == 3

SeedItem(price_text, weight_text, quantity) ==
    calculated_product(
        [EmptyData EXCEPT !.original_price = ValN(ParsePrice(price_text).v),
                          !.delivery_type = ValS("ems"),
                          !.weight = ValN(ParseWeight(weight_text).v),
                          !.product_link = ValS("https://shop.de/item"),
                          !.product_features = ValS("red")],
        quantity)

\* carts of items added with the quantity 2 and by add_calculated_to_cart
SeedCarts ==
    UNION {[1..n -> {SeedItem("100", "1", 2), SeedItem("250,00 €", "2.5", 0)}]
             : n \in 0..MaxLen}

\* the carts of a session that sits beside the one that is followed
FewSeedCarts == {cart \in SeedCarts : Len(cart) <= 1}

\* sessions in the main menu with a cart, nothing cached, and no walk going on
InitCart ==
    /\ fsm = [u \in Users |-> "none"]
    /\ \E cart \in SeedCarts, other \in FewSeedCarts :
            data = [u \in Users |-> IF u \in Visitors THEN OnlyCart(cart)
                                    ELSE OnlyCart(other)]
    /\ user_results = [u \in Users |-> NoResults]
    /\ cache = [p \in Pairs |-> 0]
    /\ last_update = 0
    /\ fetched = NeverFetched
    /\ now = 0
    /\ last = Ev("start", 0, "none")
    /\ updates = 0 - 1
    /\ calculation_data = [original_price |-> AbsentN, final_price |-> AbsentN]

\* two sessions looking at their carts while time passes
NextCart ==
    \/ \E u \in Users, api \in ApiAnswers : cart_handler(u, api)
    \/ \E u \in Users, api \in ApiAnswers : cart_callback(u, api)
    \/ \E u \in Users, api \in ApiAnswers : cart_next_callback(u, api)
    \/ \E u \in Users : back_to_cart_callback(u)
    \/ \E u \in Users : clear_cart_callback(u)
    \/ \E u \in Users : clear_cart_reply_handler(u)
    \/ \E u \in Users, text \in IntTexts, api \in ApiAnswers :
            remove_item_callback(u, text, api)
    \/ \E u \in Users : back_to_main_callback(u)
    \/ Tick

SpecCart == InitCart /\ [][NextCart]_vars

\* one session with a cart that goes through the checkout
InitOrder ==
    /\ fsm = [u \in Users |-> "none"]
    /\ \E cart \in SeedCarts :
            data = [u \in Users |-> IF u \in Visitors THEN OnlyCart(cart) ELSE EmptyData]
    /\ user_results = [u \in Users |-> NoResults]
    /\ cache = [p \in Pairs |-> 0]
    /\ last_update = 0
    /\ fetched = NeverFetched
    /\ now = 0
    /\ last = Ev("start", 0, "none")
    /\ updates = 0 - 1
    /\ calculation_data = [original_price |-> AbsentN, final_price |-> AbsentN]

NextOrder ==
    \/ \E u \in Visitors : payment_ok_callback(u)
    \/ \E u \in Visitors, text \in NameTexts : process_name(u, text)
    \/ \E u \in Visitors, text \in PhoneTexts : process_phone_number(u, text)
    \/ \E u \in Visitors, text \in EmailTexts : process_email(u, text)
    \/ \E u \in Visitors, text \in AddressTexts, api \in ApiAnswers :
            process_address(u, text, api)
    \/ \E u \in Visitors, disk \in DiskAnswers, sheets \in SheetsAnswers,
          manager \in ManagerAnswers, elapsed \in 0..1 :
            confirm_order_callback(u, disk, sheets, manager, elapsed)
    \/ \E u \in Visitors : restart_order(u)
    \/ \E u \in Visitors : cancel_order_handler(u)
    \/ \E u \in Visitors : clear_cart_callback(u)
    \/ \E u \in Visitors, text \in FewIntTexts, api \in ApiAnswers :
            remove_item_callback(u, text, api)
    \/ \E u \in Visitors : back_to_main_callback(u)
    \/ Tick

SpecOrder == InitOrder /\ [][NextOrder]_vars

\* one session that typed a price and chose the tier, about to choose a weight
InitPricing ==
    /\ fsm = [u \in Users |-> IF u \in Visitors THEN "waiting_for_weight" ELSE "none"]
    /\ \E text \in QuotedPriceTexts :
            data = [u \in Users |->
                       IF u \in Visitors
                       THEN [EmptyData EXCEPT
                                !.original_price = ValN(ParsePrice(text).v),
                                !.delivery_type = ValS("ems")]
                       ELSE EmptyData]
    /\ user_results = [u \in Users |-> NoResults]
    /\ cache = [p \in Pairs |-> 0]
    /\ last_update = 0
    /\ fetched = NeverFetched
    /\ now = 0
    /\ last = Ev("start", 0, "none")
    /\ updates = 0 - 1
    /\ calculation_data = [original_price |-> AbsentN, final_price |-> AbsentN]

QuotedTiers == {"ems", "dhl"}

NextPricing ==
    \/ \E u \in Visitors, tier \in QuotedTiers, text \in QuotedWeightTexts,
          api \in ApiAnswers : choose_weight(u, tier, text, api)
    \/ \E u \in Visitors : select_quantity_calculated(u)
    \/ \E u \in Visitors, text \in QuantityTexts : handle_quantity_calculated(u, text)
    \/ \E u \in Visitors, text \in CustomQuantityTexts :
            handle_custom_quantity_calculated(u, text)
    \/ \E u \in Visitors : add_calculated_to_cart(u)

SpecPricing == InitPricing /\ [][NextPricing]_vars

(***************************************************************************)
(* The calculation dialog of one session from the main menu up to the      *)
(* offer to add the item, with prices typed that are no price, and the     *)
(* engine called on listed prices of every kind.                           *)
(***************************************************************************)
\* calculate_item_price(price_input, delivery_type, weight): 0.0 when
\* extract_price_value gives None
calculate_item_price_call(price_input, delivery_type, weight) ==
    LET original_price_clean == extract_price_value(price_input)
    IN  /\ last' = [Ev("calculate_item_price", 0, "returned") EXCEPT
                       !.input = price_input,
                       !.tier = delivery_type,
                       !.result = IF ~original_price_clean.ok THEN 0
                                  ELSE calculate_item_price(original_price_clean.v,
                                                            delivery_type, weight)]
        /\ UNCHANGED <<fsm, data, user_results, cache, last_update, fetched, now,
                       updates, calculation_data>>

InitCalculation ==
    /\ fsm = [u \in Users |-> "none"]
    /\ data = [u \in Users |-> EmptyData]
    /\ user_results = [u \in Users |-> NoResults]
    /\ cache = [p \in Pairs |-> 0]
    /\ last_update = 0
    /\ fetched = NeverFetched
    /\ now = 0
    /\ last = Ev("start", 0, "none")
    /\ updates = 0 - 1
    /\ calculation_data = [original_price |-> AbsentN, final_price |-> AbsentN]

NextCalculation ==
    \/ \E u \in Visitors : start_price_calculation(u)
    \/ \E u \in Visitors : cancel_price_calculation(u)
    \/ \E u \in Visitors, text \in {"100", "200", "250,00 €", "-5", "abc"} :
            input_original_price(u, text)
    \/ \E u \in Visitors, tier \in QuotedTiers : choose_delivery_type(u, tier)
    \/ \E u \in Visitors, tier \in TierInputs, text \in WeightTexts,
          api \in ApiAnswers : choose_weight(u, tier, text, api)
    \/ \E u \in Visitors,
          text \in {"https://shop.de/item", "http://shop.de/item", "shop.de/item",
                    "ftp://shop.de/item"} : input_product_link(u, text)
    \/ \E u \in Visitors, text \in FeatureTexts : input_product_features(u, text)
    \/ \E price_input \in
              {TextInput(text) :
                  text \in {"100", "19.99", "250,00 €", "-5", "abc", "1.2.3"}}
                  \cup {NumberInput(x) : x \in {10000, 1999, 0 - 500}},
          tier \in QuotedTiers :
            calculate_item_price_call(price_input, tier, 10)

SpecCalculation == InitCalculation /\ [][NextCalculation]_vars

(***************************************************************************)
(* Two sessions at once.  Each session starts somewhere along the walks    *)
(* the dialogs allow: in the search, in the calculation, with a cart, in   *)
(* the checkout.  The updates of the two sessions then arrive in any       *)
(* order, MaxTurns of them.                                                *)
(***************************************************************************)
MaxTurns == 2

Session(st, d, results) == [fsm |-> st, data |-> d, results |-> results]

\* what a session holds along the way: the results of a search and the
\* product picked from them; the price, tier, weight, link and features of
\* a calculation; the cart after add_calculated_to_cart; the checkout fields
Walked ==
    LET priced == [EmptyData EXCEPT !.original_price = ValN(ParsePrice("100").v)]
        weighed == [priced EXCEPT !.delivery_type = ValS("ems"),
                                  !.weight = ValN(ParseWeight("1").v)]
        featured == [weighed EXCEPT !.product_link = ValS("https://shop.de/item"),
                                    !.product_features = ValS("red")]
        added == [featured EXCEPT !.cart = <<calculated_product(featured, 0)>>,
                                  !.original_price = NoneN, !.delivery_type = NoneS,
                                  !.weight = NoneN, !.product_link = NoneS,
                                  !.product_features = NoneS]
        named == [added EXCEPT !.name = ValS("Ivanov Ivan")]
        mailed == [named EXCEPT !.phone_number = ValS("79998887766"),
                                !.email = ValS("ivan@mail.ru")]
    IN  [listed |-> [has |-> TRUE, results |-> SearchListing, current_index |-> 0],
         picked |-> [EmptyData EXCEPT !.selected_product = [k |-> "val", v |-> 1]],
         priced |-> priced, weighed |-> weighed, featured |-> featured,
         added |-> added, named |-> named, mailed |-> mailed,
         addressed |-> [mailed EXCEPT !.address = ValS("101000, Moscow")]]

\* the session that is followed
SessionSeeds ==
    {Session("none", EmptyData, NoResults),
     Session("waiting_for_quantity_search", Walked.picked, Walked.listed),
     Session("waiting_for_delivery_type", Walked.priced, NoResults),
     Session("waiting_for_product_link", Walked.weighed, NoResults),
     Session("waiting_for_quantity_calculated", Walked.featured, NoResults),
     Session("showing_result", Walked.added, Walked.listed),
     Session("waiting_for_phone", Walked.named, Walked.listed),
     Session("waiting_for_address", Walked.mailed, Walked.listed)}

\* the session beside it: in the search, or with a cart in the checkout
SeedsBeside ==
    {Session("showing_results", EmptyData, Walked.listed),
     Session("waiting_for_confirmation", Walked.addressed, Walked.listed)}

InitSessions ==
    /\ \E seed \in [Users -> SessionSeeds \cup SeedsBeside] :
            /\ \A u \in Visitors : seed[u] \in SessionSeeds
            /\ \A u \in Users \ Visitors : seed[u] \in SeedsBeside
            /\ fsm = [u \in Users |-> seed[u].fsm]
            /\ data = [u \in Users |-> seed[u].data]
            /\ user_results = [u \in Users |-> seed[u].results]
    /\ cache = [p \in Pairs |-> 0]
    /\ last_update = 0
    /\ fetched = NeverFetched
    /\ now = 0
    /\ last = Ev("start", 0, "none")
    /\ updates = MaxUpdates - MaxTurns
    /\ calculation_data = [original_price |-> AbsentN, final_price |-> AbsentN]

NextSessions ==
    \/ \E u \in Users : MenuUpdate(u)
    \/ \E u \in Users : CartUpdate(u)
    \/ \E u \in Users : CalculationUpdate(u)
    \/ \E u \in Users : SearchUpdate(u)
    \/ \E u \in Users : OrderUpdate(u)

SpecSessions == InitSessions /\ [][NextSessions]_vars

(***************************************************************************)
(* The currency service alone: calls for the pairs, the provider answering *)
(* a rate or failing, and time passing in steps of half the cache interval.*)
(***************************************************************************)
MaxWaits == 4
WaitSeconds == cache_timeout \div 2

Wait ==
    /\ now < MaxWaits * WaitSeconds
    /\ now' = now + WaitSeconds
    /\ last' = Ev("Wait", 0, "none")
    /\ UNCHANGED <<fsm, data, user_results, cache, last_update, fetched, updates, calculation_data>>

InitCurrency ==
    /\ fsm = [u \in Users |-> "none"]
    /\ data = [u \in Users |-> EmptyData]
    /\ user_results = [u \in Users |-> NoResults]
    /\ cache = [p \in Pairs |-> 0]
    /\ last_update = 0
    /\ fetched = NeverFetched
    /\ now = 0
    /\ last = Ev("start", 0, "none")
    /\ updates = 0 - 1
    /\ calculation_data = [original_price |-> AbsentN, final_price |-> AbsentN]

NextCurrency ==
    \/ \E pair \in Pairs, answer \in {0, 90, 95} : get_exchange_rate_call(pair, answer)
    \/ Wait

SpecCurrency == InitCurrency /\ [][NextCurrency]_vars

(***************************************************************************)
(* The router of price_calculation_handlers: its dialog keeps the prices   *)
(* in calculation_data, a dictionary of the module, and the cart in the    *)
(* FSM data of the session.                                                *)
(***************************************************************************)
router_start_price_calculation(u) ==
    /\ calculation_data' = [original_price |-> AbsentN, final_price |-> AbsentN]
    /\ Sess(u, "waiting_for_original_price", OnlyCart(data[u].cart))
    /\ last' = Ev("router_start_price_calculation", u, "ask_price")
    /\ NoConvert
    /\ UNCHANGED <<user_results, now, updates>>

handle_original_price(u, text) ==
    LET original_price == extract_price_value(TextInput(text))
    IN  /\ fsm[u] = "waiting_for_original_price"
        /\ IF ~original_price.ok \/ original_price.v <= 0
           THEN /\ UNCHANGED <<fsm, data, calculation_data>>
                /\ last' = [Ev("handle_original_price", u, "price_error")
                               EXCEPT !.input = TextInput(text)]
           ELSE /\ calculation_data' = [calculation_data EXCEPT
                                           !.original_price = ValN(original_price.v)]
                /\ Sess(u, "waiting_for_final_price", data[u])
                /\ last' = [Ev("handle_original_price", u, "ask_final_price")
                               EXCEPT !.input = TextInput(text)]
        /\ NoConvert
        /\ UNCHANGED <<user_results, now, updates>>

\* calculation_data.get('original_price', 0) is the price compared with
handle_final_price(u, text) ==
    LET final_price == extract_price_value(TextInput(text))
        original_price == IF calculation_data.original_price.k = "val"
                          THEN calculation_data.original_price.v ELSE 0
    IN  /\ fsm[u] = "waiting_for_final_price"
        /\ IF ~final_price.ok \/ final_price.v <= 0
           THEN /\ UNCHANGED <<fsm, data, calculation_data>>
                /\ last' = [Ev("handle_final_price", u, "final_price_error")
                               EXCEPT !.input = TextInput(text)]
           ELSE IF final_price.v < original_price
           THEN /\ UNCHANGED <<fsm, data, calculation_data>>
                /\ last' = [Ev("handle_final_price", u, "final_price_below_price")
                               EXCEPT !.input = TextInput(text),
                                      !.result = original_price]
           ELSE /\ calculation_data' = [calculation_data EXCEPT
                                           !.final_price = ValN(final_price.v)]
                /\ Sess(u, "waiting_for_delivery_type", data[u])
                /\ last' = [Ev("handle_final_price", u, "ask_tier")
                               EXCEPT !.input = TextInput(text),
                                      !.result = original_price]
        /\ NoConvert
        /\ UNCHANGED <<user_results, now, updates>>

router_cancel_price_calculation(u) ==
    /\ calculation_data' = [original_price |-> AbsentN, final_price |-> AbsentN]
    /\ Sess(u, "none", OnlyCart(data[u].cart))
    /\ last' = Ev("router_cancel_price_calculation", u, "calculation_cancelled")
    /\ NoConvert
    /\ UNCHANGED <<user_results, now, updates>>

InitRouter ==
    /\ fsm = [u \in Users |-> "none"]
    /\ \E cart \in FewSeedCarts : data = [u \in Users |-> OnlyCart(cart)]
    /\ user_results = [u \in Users |-> NoResults]
    /\ cache = [p \in Pairs |-> 0]
    /\ last_update = 0
    /\ fetched = NeverFetched
    /\ now = 0
    /\ last = Ev("start", 0, "none")
    /\ updates = 0 - 1
    /\ calculation_data = [original_price |-> AbsentN, final_price |-> AbsentN]

NextRouter ==
    \/ \E u \in Users : router_start_price_calculation(u)
    \/ \E u \in Users, text \in {"100", "19.99", "abc"} : handle_original_price(u, text)
    \/ \E u \in Users, text \in {"100", "19.99", "abc"} : handle_final_price(u, text)
    \/ \E u \in Users : router_cancel_price_calculation(u)

SpecRouter == InitRouter /\ [][NextRouter]_vars

(***************************************************************************)
(* Properties.                                                             *)
(***************************************************************************)
IsPrefix(s, t) == Len(s) <= Len(t) /\ SubSeq(t, 1, Len(s)) = s

\* the sequence without its item at position i, counted from 0
Without(s, i) == SubSeq(s, 1, i) \o SubSeq(s, i + 2, Len(s))

AddHandlers == {"handle_quantity_search", "handle_custom_quantity_search",
                "handle_quantity_calculated", "handle_custom_quantity_calculated",
                "add_calculated_to_cart"}

\* C1: a cart changes only by an add (which keeps every item already in the
\* cart and appends one), a removal, a clear or a successful order submission;
\* every other handler, the reset handlers included, leaves the cart as it is
C1_CartChangesOnlyByCartOperations ==
    [][\A u \in Users :
          data'[u].cart # data[u].cart =>
              /\ last'.u = u
              /\ \/ /\ last'.op \in AddHandlers
                    /\ last'.reply = "added"
                    /\ IsPrefix(data[u].cart, data'[u].cart)
                    /\ Len(data'[u].cart) = Len(data[u].cart) + 1
                 \/ last'.op = "remove_item_callback"
                 \/ last'.op \in {"clear_cart_callback", "clear_cart_reply_handler"}
                 \/ /\ last'.op = "confirm_order_callback"
                    /\ last'.reply = "order_success"]_vars

\* the total the specification states: net + 5.00 + international cost
\* + commission + insurance, rounded once at the end
StatedTotal(original_price, delivery_type, weight) ==
    LET net == DPct(Dec(original_price), 81)
        base == DAdd(DAdd(net, Dec(delivery_cost_to_warehouse)),
                     Dec(get_delivery_cost(delivery_type, weight)))
        commission == DPct(base, 15)
        insurance == DPct(DAdd(net, commission), 3)
    IN  Round2(DAdd(DAdd(base, commission), insurance))

\* the same total with the commission and the insurance rounded to cents
\* before they are added (121.80 for 100 / ems / 1)
StatedTotalOfRoundedParts(original_price, delivery_type, weight) ==
    LET net == DPct(Dec(original_price), 81)
        base == DAdd(DAdd(net, Dec(delivery_cost_to_warehouse)),
                     Dec(get_delivery_cost(delivery_type, weight)))
        commission == DPct(base, 15)
        insurance == DPct(DAdd(net, commission), 3)
    IN  Round2(DAdd(DAdd(base, Dec(Round2(commission))), Dec(Round2(insurance))))

\* C2: the 'total' of calculate_cart_total (the result of calculate_item_price)
\* for a price, a tier and a weight of the tier is net + 5.00 + international
\* cost + commission + insurance, to two decimals
C2_EngineTotalHasEveryComponent ==
    (last.op = "choose_weight" /\ last.result >= 0) =>
        \E tier \in TierCodes :
            last.result \in
                {StatedTotal(data[last.u].original_price.v, tier,
                             data[last.u].weight.v),
                 StatedTotalOfRoundedParts(data[last.u].original_price.v, tier,
                                           data[last.u].weight.v)}

C4_EmptyCartConfirmation ==
    [][\A u \in Users :
          (data[u].cart = <<>> /\ last'.op = "confirm_order_callback" /\ last'.u = u) =>
              /\ last'.reply = "cart_empty_error"
              /\ last'.attempts = <<>>
              /\ ~last'.written
              /\ ~last'.notified
              /\ data'[u] = data[u]
              /\ fsm'[u] = fsm[u]]_vars

C4_EmptyCartConfirmed ==
    /\ last.op = "confirm_order_callback"
    /\ last.reply = "cart_empty_error"
    /\ fsm[last.u] = "waiting_for_confirmation"
    /\ data[last.u].address.k = "val"
    /\ data[last.u].cart = <<>>

\* C5: a handler whose convert_price call returned None still completes: it
\* answers (the quote, the cart view, the order summary) instead of raising
C5_NoRateNeverBlocks ==
    last.rate = "none" =>
        /\ last.reply # "raised"
        /\ last.op = "choose_weight" => fsm[last.u] = "waiting_for_product_link"
        /\ last.op = "process_address" => fsm[last.u] = "waiting_for_confirmation"

\* C6: an item in a cart is never rewritten: a step leaves a cart as it is,
\* empties it, takes one item out of it or appends one item to it, so every
\* item that stays keeps its price, net price, tier, weight, costs, total and
\* quantity, whichever session acts, whatever is rendered and whatever the
\* rate cache does
C6_ItemsAreFrozen ==
    [][\A u \in Users :
          LET old == data[u].cart
              new == data'[u].cart
          IN  \/ new = old
              \/ new = <<>>
              \/ \E i \in 0..(Len(old) - 1) : new = Without(old, i)
              \/ IsPrefix(old, new) /\ Len(new) = Len(old) + 1]_vars

C6_ViewedAfterRateRefresh ==
    /\ last.op = "cart_handler"
    /\ last.reply = "cart_view"
    /\ now = TickSeconds
    /\ last_update = now
    /\ Len(data[last.u].cart) = MaxLen
    /\ \E u \in Users \ {last.u} : data[u].cart # <<>>

\* C7: the total of an item in the cart is the total of the quote that
\* choose_weight displays for the item's price, tier and weight
C7_FrozenTotalIsQuotedTotal ==
    \A u \in Users : \A j \in 1..Len(data[u].cart) :
        data[u].cart[j].total =
            final_price_without_vat(data[u].cart[j].original_price,
                                    data[u].cart[j].delivery_type_code,
                                    data[u].cart[j].weight)

RECURSIVE StatedGrandTotal(_)
StatedGrandTotal(cart) ==
    IF cart = <<>> THEN 0
    ELSE Head(cart).total * ItemQuantity(Head(cart)) + StatedGrandTotal(Tail(cart))

\* C8: every rendering of a cart that shows the grand total line
\* (cart_handler, cart_callback, the view after remove_item_callback, for a
\* cart of more than one item) shows the sum over the items of the stored
\* total times the quantity
C8_GrandTotalIsSumOfStoredTotals ==
    (/\ last.reply = "cart_view"
     /\ last.op \in {"cart_handler", "cart_callback", "remove_item_callback"}
     /\ Len(data[last.u].cart) > 1) =>
        last.shown = StatedGrandTotal(data[last.u].cart)

\* C9: remove_item_callback with an index i, 0 <= i < len(cart), takes exactly
\* item i out of the cart and keeps the others in order; with any other index
\* (negative, too large, not a number) the cart, the data and the dialog state
\* stay as they are and an error is answered
C9_RemoveOnlyInRange ==
    [][\A u \in Users :
          (last'.op = "remove_item_callback" /\ last'.u = u) =>
              LET old == data[u].cart
                  i == last'.index
              IN  IF last'.reply # "remove_error" /\ 0 <= i /\ i < Len(old)
                  THEN /\ data'[u].cart = Without(old, i)
                       /\ last'.removed = <<old[i + 1]>>
                       /\ fsm'[u] = fsm[u]
                  ELSE /\ data'[u] = data[u]
                       /\ fsm'[u] = fsm[u]
                       /\ last'.reply \in {"remove_error", "item_not_found"}]_vars

C9_FirstItemRemoved ==
    /\ last.op = "remove_item_callback"
    /\ last.index = 0
    /\ last.removed # <<>>
    /\ data[last.u].cart # <<>>
    /\ data[last.u].cart[1] # last.removed[1]

\* C10: two removals in a row at the same index i by the same session, from a
\* cart of N items with i + 1 < N, take out the original items i and i + 1 and
\* leave the N - 2 others in their original order
C10_TwoRemovalsAtOneIndex ==
    [][(/\ last.op = "remove_item_callback"
        /\ last.removed # <<>>
        /\ last'.op = "remove_item_callback"
        /\ last'.u = last.u
        /\ last'.index = last.index) =>
          LET i == last.index
              mid == data[last.u].cart
              orig == SubSeq(mid, 1, i) \o last.removed \o SubSeq(mid, i + 1, Len(mid))
              N == Len(orig)
          IN  i + 1 < N =>
                  /\ data'[last.u].cart = SubSeq(orig, 1, i) \o SubSeq(orig, i + 3, N)
                  /\ Len(data'[last.u].cart) = N - 2
                  /\ last.removed = <<orig[i + 1]>>
                  /\ last'.removed = <<orig[i + 2]>>]_vars

C10_RemovedTwice ==
    /\ last.op = "remove_item_callback"
    /\ last.again
    /\ last.removed # <<>>

\* C12: a call for a pair whose raw rate r the provider gave less than
\* cache_timeout seconds ago returns r * 1.035 and asks the provider nothing,
\* whatever the provider would answer now
C12_FreshRateIsReused ==
    [][\A pair \in Pairs :
          (/\ last'.op = "get_exchange_rate"
           /\ last'.pair = pair
           /\ fetched[pair].at >= 0
           /\ now' = now
           /\ now - fetched[pair].at < cache_timeout) =>
              /\ last'.rate = "cached"
              /\ last'.result = Returned(fetched[pair].rate)
              /\ fetched' = fetched]_vars

C12_ServedAfterHalfTheInterval ==
    /\ last.op = "get_exchange_rate"
    /\ last.rate = "cached"
    /\ now - fetched[last.pair].at = WaitSeconds
    /\ last.result = Returned(fetched[last.pair].rate)

\* C13: a rate served from the cache for a pair was given by the provider for
\* that pair less than cache_timeout seconds before the call
C13_ServedRateIsNeverStale ==
    (last.op = "get_exchange_rate" /\ last.rate = "cached") =>
        /\ fetched[last.pair].at >= 0
        /\ now - fetched[last.pair].at < cache_timeout

\* C14: a call whose request to the provider fails returns None and leaves
\* the cache and the last-update time as they were; and a call for a pair
\* with no fresh cached rate asks the provider, also right after a failure
C14_FailedFetchIsNotRemembered ==
    [][\A pair \in Pairs :
          (last'.op = "get_exchange_rate" /\ last'.pair = pair /\ now' = now) =>
              /\ last'.rate = "none" =>
                    /\ last'.result = 0 - 1
                    /\ cache' = cache
                    /\ last_update' = last_update
              /\ ~CacheFresh(pair) => last'.rate \in {"fetched", "none"}
              /\ (last.op = "get_exchange_rate" /\ last.pair = pair
                    /\ last.rate = "none") => last'.rate \in {"fetched", "none"}]_vars

C14_FailedWithStaleEntry ==
    /\ last.op = "get_exchange_rate"
    /\ last.rate = "none"
    /\ cache[last.pair] # 0
    /\ now - last_update >= cache_timeout
    /\ now > 0

\* C11: an add that succeeds right after the session cleared its cart leaves
\* a cart of length 1 whose only item is the one just added, for a search
\* result added through the quantity selection and for a calculated item
C11_ClearThenAddGivesOneItem ==
    [][(/\ last.op \in {"clear_cart_callback", "clear_cart_reply_handler"}
        /\ last'.op \in AddHandlers
        /\ last'.reply = "added"
        /\ last'.u = last.u) =>
          LET cart == data'[last.u].cart
          IN  /\ Len(cart) = 1
              /\ cart[1].source =
                    IF last'.op \in {"handle_quantity_search",
                                     "handle_custom_quantity_search"}
                    THEN "search" ELSE "calc"
              /\ cart[1].source = "calc" =>
                    /\ cart[1].original_price = DataPrice(data[last.u])
                    /\ cart[1].weight = DataWeight(data[last.u])]_vars

ScratchFields == {"original_price", "delivery_type", "weight", "product_link",
                  "product_features"}

\* C20: with the scratch of a finished calculation, completing the add
\* (add_calculated_to_cart from showing_result, or a quantity after
\* select_quantity_calculated) appends exactly one item built from the scratch
\* price, tier, weight, link and features, keeps the old items before it,
\* discards the scratch fields and leaves the session idle
C20_AddFromResultReady ==
    [][\A u \in Users :
          (/\ last'.u = u
           /\ last'.reply = "added"
           /\ \/ last'.op = "add_calculated_to_cart" /\ fsm[u] = "showing_result"
              \/ last'.op \in {"handle_quantity_calculated",
                               "handle_custom_quantity_calculated"}
           /\ \A f \in ScratchFields : data[u][f].k = "val") =>
              LET old == data[u].cart
                  new == data'[u].cart
              IN  /\ Len(new) = Len(old) + 1
                  /\ IsPrefix(old, new)
                  /\ new[Len(new)].original_price = data[u].original_price.v
                  /\ new[Len(new)].delivery_type_code = data[u].delivery_type.v
                  /\ new[Len(new)].weight = data[u].weight.v
                  /\ new[Len(new)].link = data[u].product_link.v
                  /\ new[Len(new)].product_features = data[u].product_features.v
                  /\ \A f \in ScratchFields : data'[u][f].k # "val"
                  /\ fsm'[u] = "none"]_vars

\* C16: a search whose provider failed is answered with the notice that the
\* search is temporarily unavailable and never with "nothing found"; in that
\* case and after an empty listing nothing is cached for the session and the
\* dialog stays in waiting_for_query.
C16_FailureIsNotNothingFound ==
    [][(last'.op = "process_search_query" /\ last'.answer # "")
        => /\ last'.answer = "failure" => last'.reply = "unavailable"
           /\ last'.reply = "nothing_found" => last'.answer = "nothing"
           /\ last'.answer \in {"failure", "nothing"}
                 => /\ user_results'[last'.u] = user_results[last'.u]
                    /\ fsm'[last'.u] = "waiting_for_query"]_vars

\* C17: after a successful order confirmation the session's cart is empty,
\* its checkout fields and calculation scratch are cleared and its dialog
\* state is the idle one.
C17_ConfirmedOrderLeavesNothing ==
    (last.op = "confirm_order_callback" /\ last.reply = "order_success")
        => /\ fsm[last.u] = "none"
           /\ data[last.u].cart = <<>>
           /\ \A f \in {"name", "phone_number", "email", "address"} \cup ScratchFields :
                    data[last.u][f].k # "val"
           /\ data[last.u] = EmptyData

\* an order was confirmed from a session that held a cart and all four
\* checkout fields
C17_OrderConfirmed ==
    /\ last.op = "confirm_order_callback"
    /\ last.reply = "order_success"
    /\ last.written
    /\ fsm[last.u] = "none"

\* C18: get_delivery_cost gives a cost only for a tier and a weight that are
\* a key of the shipping table, and that cost is the entry of the key; for a
\* known tier and a weight that is no key it gives none, never the entry of a
\* listed weight nearby, and the engine then gives no quote: calculate_item_price
\* returns 0.0, calculate_cart_total fails, and choose_weight shows nothing
\* and does not move on.
C18_NoCostOffTheTable ==
    /\ \A tier \in QuotedTiers, w \in 0..90 :
            get_delivery_cost(tier, w) # NoCost
                => /\ tier \in TierCodes
                   /\ w \in DOMAIN DELIVERY_TYPES[tier]
                   /\ get_delivery_cost(tier, w) = DELIVERY_TYPES[tier][w]
    /\ (/\ last.op = "choose_weight"
        /\ last.tier \in TierCodes
        /\ data[last.u].weight.v \notin DOMAIN DELIVERY_TYPES[last.tier])
          => LET price == data[last.u].original_price.v
                 w == data[last.u].weight.v
             IN  /\ get_delivery_cost(last.tier, w) = NoCost
                 /\ calculate_item_price(price, last.tier, w) = 0
                 /\ ~calculate_cart_total(price, last.tier, w).ok
                 /\ last.reply = "raised"
                 /\ last.result = 0 - 1
                 /\ last.shown = 0 - 1
                 /\ fsm[last.u] = "waiting_for_weight"

\* the weight 9 was chosen for the tier ems, whose table ends at 8
C18_WeightOffTheTableChosen ==
    /\ last.op = "choose_weight"
    /\ last.tier = "ems"
    /\ data[last.u].weight = ValN(90)
    /\ last.reply = "raised"

\* the listed prices that are negative or no number
NotAPrice(price_input) ==
    \/ price_input.k = "number" /\ price_input.v < 0
    \/ price_input.k = "text" /\ price_input.v \in {"-5", "abc", "1.2.3"}

\* C19: a negative or non-numeric listed price is rejected wherever it
\* enters: typed in waiting_for_original_price it is answered with the error
\* and neither stored nor followed by the next step of the dialog, and the
\* engine (extract_price_value, calculate_item_price) makes no price and no
\* quote of it.
C19_InvalidPriceIsRejected ==
    [][/\ (last'.op = "input_original_price" /\ NotAPrice(last'.input))
            => /\ last'.reply = "price_error"
               /\ data' = data
               /\ fsm' = fsm
       /\ (last'.op = "calculate_item_price" /\ NotAPrice(last'.input))
            => /\ ~extract_price_value(last'.input).ok
               /\ last'.result = 0]_vars

\* C15: whatever the order in which the updates of two sessions arrive, an
\* update of one session changes nothing of the other: not its cart and
\* checkout fields (its data dict), not its dialog state, not its cached
\* search results.
C15_SessionsAreApart ==
    [][\A u \in Users :
            last'.u # u => /\ fsm'[u] = fsm[u]
                           /\ data'[u] = data[u]
                           /\ user_results'[u] = user_results[u]]_vars

\* a session got its search results while the other one, with a cart, its
\* checkout fields and results of its own, waited for the confirmation
C15_SearchBesideCheckout ==
    /\ last.op = "process_search_query"
    /\ last.reply = "product_card"
    /\ \E u \in Users \ {last.u} :
            /\ fsm[u] = "waiting_for_confirmation"
            /\ data[u] = Walked.addressed
            /\ user_results[u] = Walked.listed

\* C21: in waiting_for_delivery_type a "delivery_<code>" callback moves the
\* session to waiting_for_weight only when <code> is a tier of the shipping
\* table; for any other code the session stays in waiting_for_delivery_type
\* and the tier is asked for again.
C21_OnlyKnownTierAdvances ==
    [][last'.op = "choose_delivery_type"
        => IF last'.tier \in TierCodes
           THEN fsm'[last'.u] = "waiting_for_weight"
           ELSE /\ fsm'[last'.u] = "waiting_for_delivery_type"
                /\ last'.reply = "ask_tier"]_vars

\* C22: in waiting_for_weight a weight callback moves the session to
\* waiting_for_product_link only when the weight is a key of the table of the
\* tier the session chose in waiting_for_delivery_type, and on that move the
\* quote of the engine for the session's price, tier and weight is stored in
\* the data of the session.
C22_WeightOfChosenTierStoresQuote ==
    [][(/\ last'.op = "choose_weight"
        /\ fsm[last'.u] = "waiting_for_weight"
        /\ fsm'[last'.u] = "waiting_for_product_link")
        => LET d == data[last'.u]
               after == data'[last'.u]
           IN  /\ d.delivery_type.k = "val"
               /\ d.delivery_type.v \in TierCodes
               /\ after.weight.v \in DOMAIN DELIVERY_TYPES[d.delivery_type.v]
               /\ \E f \in {"original_price", "weight", "selected_product"} :
                      after[f] = ValN(calculate_cart_total(
                                          d.original_price.v, d.delivery_type.v,
                                          after.weight.v).total)]_vars

C24_CancelLeavesCalculation ==
    [][(/\ last'.op \in {"cancel_price_calculation", "back_to_main_callback"}
        /\ fsm[last'.u] \in {"waiting_for_original_price", "waiting_for_delivery_type",
                             "waiting_for_weight", "waiting_for_product_link",
                             "waiting_for_product_features", "showing_result"})
        => /\ fsm'[last'.u] = "none"
           /\ data'[last'.u] = OnlyCart(data[last'.u].cart)]_vars

\* C25: after cancel_order in any state of the checkout the session has no
\* dialog state, its name, phone number, email and address are cleared and
\* its cart is the one it had.
C25_CancelOrderLeavesCheckout ==
    [][(/\ last'.op = "cancel_order_handler"
        /\ fsm[last'.u] \in {"waiting_for_name", "waiting_for_phone",
                             "waiting_for_email", "waiting_for_address",
                             "waiting_for_confirmation"})
        => /\ fsm'[last'.u] = "none"
           /\ \A f \in {"name", "phone_number", "email", "address"} :
                    data'[last'.u][f].k # "val"
           /\ data'[last'.u].cart = data[last'.u].cart]_vars

\* C26: when the local write fails on confirmation the user is told that the
\* order failed, and the cart, the checkout fields and the dialog state
\* waiting_for_confirmation of the session are as they were, so that the
\* confirmation can be given again.
C26_FailedWriteKeepsOrder ==
    [][(/\ last'.op = "confirm_order_callback"
        /\ last'.attempts # <<>>
        /\ ~last'.written)
        => /\ last'.reply = "order_failed"
           /\ fsm'[last'.u] = "waiting_for_confirmation"
           /\ fsm' = fsm
           /\ data' = data]_vars

\* a confirmation failed on the local write and the session still holds
\* its cart and its four fields
C26_OrderFailedOnWrite ==
    /\ last.op = "confirm_order_callback"
    /\ last.reply = "order_failed"
    /\ ~last.written
    /\ fsm[last.u] = "waiting_for_confirmation"
    /\ data[last.u].cart # <<>>
    /\ \A f \in {"name", "phone_number", "email", "address"} :
            data[last.u][f].k = "val"

\* C27: an add of a calculated item (add_calculated_to_cart, the quantity
\* selection, a chosen quantity) that arrives while the data of the session
\* holds no price, no tier or no weight appends nothing to the cart, leaves
\* the dialog state as it is and is answered with an error message.
C27_AddWithoutQuoteIsRefused ==
    [][(/\ last'.op \in {"add_calculated_to_cart", "select_quantity_calculated",
                         "handle_quantity_calculated"}
        /\ \E f \in {"original_price", "delivery_type", "weight"} :
                data[last'.u][f].k # "val")
        => /\ data'[last'.u].cart = data[last'.u].cart
           /\ fsm'[last'.u] = fsm[last'.u]
           /\ last'.reply \notin {"raised", "added", "ask_quantity",
                                  "ask_custom_quantity"}]_vars

\* C28: a session enters waiting_for_confirmation only by process_address
\* taken in waiting_for_address with a cart that is not empty; the states
\* before it are entered only in the order name, phone, email, address, each
\* by the handler of the state before; with an empty cart process_address
\* answers with the empty-cart error and the session stays in
\* waiting_for_address.
C28_ConfirmationOnlyAfterAddress ==
    [][/\ \A u \in Users :
            \A step \in {<<"waiting_for_name", "process_name", "waiting_for_phone">>,
                         <<"waiting_for_phone", "process_phone_number", "waiting_for_email">>,
                         <<"waiting_for_email", "process_email", "waiting_for_address">>,
                         <<"waiting_for_address", "process_address",
                           "waiting_for_confirmation">>} :
                (fsm'[u] = step[3] /\ fsm[u] # step[3])
                    => /\ last'.op = step[2]
                       /\ last'.u = u
                       /\ fsm[u] = step[1]
       /\ \A u \in Users :
            (fsm'[u] = "waiting_for_confirmation" /\ fsm[u] # "waiting_for_confirmation")
                => data[u].cart # <<>>
       /\ (last'.op = "process_address" /\ data[last'.u].cart = <<>>)
            => /\ last'.reply = "cart_empty_error"
               /\ fsm[last'.u] = "waiting_for_address"
               /\ fsm'[last'.u] = "waiting_for_address"]_vars

C28_SummaryAfterAddress ==
    /\ last.op = "process_address"
    /\ last.reply = "order_summary"
    /\ fsm[last.u] = "waiting_for_confirmation"
    /\ data[last.u].cart # <<>>
    /\ \A f \in {"name", "phone_number", "email", "address"} : data[last.u][f].k = "val"

C28_EmptyCartAtAddress ==
    /\ last.op = "process_address"
    /\ last.reply = "cart_empty_error"
    /\ fsm[last.u] = "waiting_for_address"
    /\ data[last.u].cart = <<>>

\* C29: a session enters waiting_for_original_price only by the menu message,
\* the start_price_calculation callback or calculate_price_again_product, and
\* each of them leaves the cart as it was and drops every other field of the
\* data of the session, the fields of the calculation and of the checkout.
C29_PriceEntryKeepsOnlyCart ==
    [][(/\ last'.u \in Users
        /\ fsm'[last'.u] = "waiting_for_original_price"
        /\ \/ fsm[last'.u] # "waiting_for_original_price"
           \/ last'.op \in {"start_price_calculation",
                            "start_price_calculation_callback",
                            "calculate_price_again_product"})
        => /\ last'.op \in {"start_price_calculation",
                            "start_price_calculation_callback",
                            "calculate_price_again_product"}
           /\ data'[last'.u] = OnlyCart(data[last'.u].cart)]_vars

C29_PriceAskedWithCartOnly ==
    /\ last.op \in {"start_price_calculation", "start_price_calculation_callback",
                    "calculate_price_again_product"}
    /\ fsm[last.u] = "waiting_for_original_price"
    /\ data[last.u].cart # <<>>
    /\ data[last.u] = OnlyCart(data[last.u].cart)

\* C30: a message in waiting_for_product_link moves the session on exactly
\* when its text starts with "http://" or "https://"; the link is then stored
\* and the state is waiting_for_product_features; after any other text the
\* state and the data of the session are as before and the link is asked again.
C30_LinkAdvancesOnlyWithScheme ==
    [][last'.op = "input_product_link"
        => /\ fsm[last'.u] = "waiting_for_product_link"
           /\ IF last'.input.v \in {"https://shop.de/item", "http://shop.de/item"}
              THEN /\ fsm'[last'.u] = "waiting_for_product_features"
                   /\ data'[last'.u] = [data[last'.u] EXCEPT
                                           !.product_link = ValS(last'.input.v)]
              ELSE /\ fsm'[last'.u] = "waiting_for_product_link"
                   /\ data'[last'.u] = data[last'.u]
                   /\ last'.reply = "link_error"]_vars

C30_LinkStored ==
    /\ last.op = "input_product_link"
    /\ last.reply = "ask_features"
    /\ fsm[last.u] = "waiting_for_product_features"
    /\ data[last.u].product_link = ValS("http://shop.de/item")

C30_LinkAskedAgain ==
    /\ last.op = "input_product_link"
    /\ last.reply = "link_error"
    /\ last.input = TextInput("ftp://shop.de/item")
    /\ fsm[last.u] = "waiting_for_product_link"
    /\ data[last.u].product_link.k # "val"

\* C31: restart_order leaves the session in waiting_for_name with name,
\* phone_number, email and address cleared; the cart, every other field of the
\* data of the session, its search results and every other session are as
\* they were.
C31_RestartClearsOnlyCheckout ==
    [][last'.op = "restart_order"
        => /\ fsm' = [fsm EXCEPT ![last'.u] = "waiting_for_name"]
           /\ \E cleared \in [{"name", "phone_number", "email", "address"}
                                -> {AbsentS, NoneS}] :
                data' = [data EXCEPT ![last'.u] =
                            [data[last'.u] EXCEPT !.name = cleared["name"],
                                                  !.phone_number = cleared["phone_number"],
                                                  !.email = cleared["email"],
                                                  !.address = cleared["address"]]]
           /\ user_results' = user_results]_vars

C31_RestartedWithCart ==
    /\ last.op = "restart_order"
    /\ fsm[last.u] = "waiting_for_name"
    /\ data[last.u].cart # <<>>
    /\ data[last.u].original_price = NoneN
    /\ \A f \in {"name", "phone_number", "email", "address"} :
            data[last.u][f] = NoneS

\* C32: the prices of a calculation of the router belong to the session that
\* entered them: while a session has entered a price and waits for the final
\* price or for the tier, no step of another session (a start, a price, a
\* final price, a cancel) changes the prices its validation reads.
C32_RouterPricesArePerSession ==
    [][\A v \in Users \ {last'.u} :
          (/\ last'.op \in {"router_start_price_calculation", "handle_original_price",
                            "handle_final_price", "router_cancel_price_calculation"}
           /\ fsm[v] \in {"waiting_for_final_price", "waiting_for_delivery_type"})
            => calculation_data' = calculation_data]_vars

\* C33: an order is written to the local record only for a session whose
\* data holds the name, the phone number, the email and the address entered
\* in this checkout: no confirmation is taken after the fields were cleared.
C33_PersistedOrderCarriesFields ==
    [][(last'.op = "confirm_order_callback" /\ last'.written)
        => \A f \in {"name", "phone_number", "email", "address"} :
                data[last'.u][f].k = "val"]_vars

\* C34: after a successful confirmation the order id shown to the user is
\* the order id of the local record and of its file name, whatever time
\* passed between the confirmation and the write.
C34_ShownIdIsStoredId ==
    (last.op = "confirm_order_callback" /\ last.reply = "order_success")
        => last.stored_id = last.order_id

\* C35: a session in showing_result or in a quantity state of a calculated
\* item holds a pending quote: its data has a price, a tier of the shipping
\* table and a weight of the table of that tier.
C35_ResultStatesHoldQuote ==
    \A u \in Users :
        fsm[u] \in {"showing_result", "waiting_for_quantity_calculated",
                    "waiting_for_custom_quantity_calculated"}
            => /\ data[u].original_price.k = "val"
               /\ data[u].delivery_type.k = "val"
               /\ data[u].delivery_type.v \in TierCodes
               /\ data[u].weight.k = "val"
               /\ data[u].weight.v \in DOMAIN DELIVERY_TYPES[data[u].delivery_type.v]

\* C36: every item of every cart has a tier and a weight of the shipping
\* table, the cost of the table for them, the net price round(price * 0.81, 2),
\* the commission round((net + 5.00 + cost) * 0.15, 2) and, when it has a
\* quantity, a quantity from 1 to 999 (an item without the key has quantity 0).
C36_CartItemsAreWellFormed ==
    \A u \in Users :
        \A i \in DOMAIN data[u].cart :
            LET item == data[u].cart[i]
            IN  /\ item.delivery_type_code \in TierCodes
                /\ item.weight \in DOMAIN DELIVERY_TYPES[item.delivery_type_code]
                /\ item.delivery_cost_from_germany
                        = DELIVERY_TYPES[item.delivery_type_code][item.weight]
                /\ item.original_price_without_vat
                        = Round2(DPct(Dec(item.original_price), 81))
                /\ item.service_commission
                        = Round2(DPct(Dec(item.original_price_without_vat + 500
                                            + item.delivery_cost_from_germany), 15))
                /\ item.quantity \in 0..999

C36_ItemAddedWithQuantity ==
    \E u \in Users :
        /\ last.reply = "added"
        /\ data[u].cart # <<>>
        /\ data[u].cart[1].quantity = 2
        /\ data[u].cart[1].original_price = 3333
        /\ data[u].cart[1].weight = 25

\* C37: the total_cost of the summary shown for an order is the total of the
\* cart that is ordered: the sum over its items of the stored total times the
\* quantity.
C37_OrderTotalIsCartTotal ==
    (last.op = "process_address" /\ last.reply = "order_summary")
        => last.shown = StatedGrandTotal(data[last.u].cart)

\* C38: in a confirmation the local write is attempted first, and the
\* operator is notified only of an order whose local record was written.
C38_ForwardedOnlyWhenWritten ==
    (last.op = "confirm_order_callback" /\ last.attempts # <<>>)
        => /\ last.attempts[1] = "local"
           /\ last.notified => last.written

\* C39: a calculation gives one item. An add of a calculated item that
\* succeeds leaves the data without its quote (the price is None or the tier
\* is gone), and from data without a quote add_calculated_to_cart, the
\* quantity selection and a chosen quantity append nothing and leave the data
\* without a quote, so that repeating them never appends a second item.
C39_OneItemPerCalculation ==
    [][last'.op \in {"add_calculated_to_cart", "select_quantity_calculated",
                     "handle_quantity_calculated", "handle_custom_quantity_calculated"}
        => LET before == data[last'.u]
               after == data'[last'.u]
           IN  /\ last'.reply = "added"
                    => \/ after.original_price.k = "none"
                       \/ after.delivery_type.k # "val"
               /\ (before.original_price.k = "none" \/ before.delivery_type.k # "val")
                    => /\ after.cart = before.cart
                       /\ last'.reply # "added"
                       /\ \/ after.original_price.k = "none"
                          \/ after.delivery_type.k # "val"]_vars

C39_RepeatedAddAppendsNothing ==
    /\ last.op = "add_calculated_to_cart"
    /\ last.reply = "raised"
    /\ Len(data[last.u].cart) = 1
    /\ data[last.u].original_price = NoneN
    /\ data[last.u].delivery_type = NoneS

====
